---- MODULE Spec2Model ----
(***************************************************************************)
(* Visit-to-billing pipeline of the clinic application: the pharmacy page  *)
(* (src/app/pharmacy/page.tsx), the billing page (billing/page.tsx in its  *)
(* latest revision, with fee resync and medicine bills) and the record     *)
(* store they share.  Every handler is one atomic action: the pages run    *)
(* synchronous JavaScript handlers, and each page keeps a snapshot of the  *)
(* store (its React state) that is only refreshed by loadQueue.  SpecConc  *)
(* is the exception: there the two admission paths run step by step.       *)
(***************************************************************************)
EXTENDS Integers, Sequences, FiniteSets, TLC

\* ---------------------------------------------------------------------
\* Optional fields: an absent (undefined) field is None, a present number
\* is Some(n); an absent string field is the empty string, which the code
\* treats like undefined in every `x || default` and `if (x)` it uses.
\* ---------------------------------------------------------------------
None == << >>

Some(v) == << v >>

OrZero(x) == IF x = None THEN 0 ELSE x[1]

OrCash(m) == IF m = "" THEN "cash" ELSE m

\* ---------------------------------------------------------------------
\* Bounds
\* ---------------------------------------------------------------------
\* most fee-history records the model lets Complete append
MaxFeeHistory == 2

\* values typed into the fee popup
FeeInputs == {500}

DiscountInputs == {20}

\* ---------------------------------------------------------------------
\* Records of the store that the pages only read
\* ---------------------------------------------------------------------
VisitIds == {"v1", "v2"}

\* with the visit of a second patient, for the pharmacy listings
AllVisitIds == VisitIds \cup {"v3"}

\* the pharmacy queue item of the one visit that is followed through both pages
InitPharmIds == {"q1"}

\* the ids the pharmacy queue items can have
AllPharmIds == {"q1", "q2", "q3"}

\* doctorVisitDb.getById: the visit record (visitNumber 1 is a new patient)
DoctorVisit(v) ==
    IF v = "v1" THEN [id |-> "v1", patientId |-> "p1", visitNumber |-> 1]
    ELSE IF v = "v2" THEN [id |-> "v2", patientId |-> "p1", visitNumber |-> 2]
    ELSE [id |-> v, patientId |-> "p2", visitNumber |-> 1]

\* appointments in the order appointmentDb.getByPatient() returns them
ApptIds == <<"a1">>

ApptIdSet == {ApptIds[i] : i \in 1..Len(ApptIds)}

VARIABLES
    pharmacyQueue,      \* pharmacyQueueDb: id -> PharmacyQueueItem
    billingQueue,       \* billingQueueDb: sequence of BillingQueueItem, creation order
    appointments,       \* appointmentDb: id -> Appointment
    billingReceipts,    \* billingReceiptDb: sequence of BillingReceipt
    feeHistory,         \* feeHistoryDb: sequence of fee-history records
    fees,               \* db 'fees' table: sequence of legacy fee records
    receiptCounter,     \* state of billingQueueDb.generateReceiptNumber()
    doctorPrescriptions, \* doctorPrescriptionDb: visit id -> ids of its prescriptions
    medicineBills,      \* medicineBillDb: sequence of MedicineBill
    medicineAmountMemory, \* medicineAmountMemoryDb: medicine -> last billed amount (0: none)
    pharmQueueItems,    \* pharmacy page: queueItems (active list snapshot)
    pharmPreparedItems, \* pharmacy page: preparedItems (prepared list snapshot)
    pharmSelectedItem,  \* pharmacy page: selectedItem (None or <<snapshot>>)
    pharmQueueRows,     \* pharmacy page: queueItems in display order, with hasUpdates
    pharmPreparedRows,  \* pharmacy page: preparedItems in display order, with hasUpdates
    previousPrescriptionIds, \* pharmacy page: the ref map item id -> last seen ids
    notification,       \* pharmacy page: None or <<number of updated prescriptions>>
    billQueueItems,     \* billing page: queueItems (pending + paid snapshot)
    billCompletedItems, \* billing page: completedItems snapshot
    billSelectedItem,   \* billing page: selectedItem of the fee popup
    showFeePopup,       \* billing page: fee popup open
    editingFee,         \* billing page: fields of the fee popup
    showPrescriptionPopup, \* billing page: prescription / bill popup open
    isBillMode,         \* billing page: the popup shows the bill editor
    viewingBillingItem, \* billing page: the item the popup was opened for
    billItems,          \* billing page: line items of the bill editor
    billDiscount,       \* billing page: discount percent of the bill editor
    billTax,            \* billing page: tax percent of the bill editor
    savedMedicineBill,  \* billing page: None or <<id>> of the bill loaded or created
    showViewBillPopup,  \* billing page: saved-bill popup open
    markPreparedSeen,   \* history: handleMarkPrepared ran never, once or again on the item
    markPreparedFlight, \* a handleMarkPrepared between its existence check and its create
    sweepFlight         \* a checkPharmacyQueue between its steps

storeVars == <<pharmacyQueue, billingQueue, appointments, billingReceipts,
               feeHistory, fees, receiptCounter>>

pharmListVars == <<pharmQueueItems, pharmPreparedItems, pharmQueueRows,
                   pharmPreparedRows, previousPrescriptionIds, notification>>

pharmPageVars == <<pharmListVars, pharmSelectedItem>>

doctorVars == <<doctorPrescriptions>>

medicineStoreVars == <<medicineBills, medicineAmountMemory>>

billEditorVars == <<showPrescriptionPopup, isBillMode, viewingBillingItem, billItems,
                    billDiscount, billTax, savedMedicineBill, showViewBillPopup>>

medicineBillVars == <<medicineStoreVars, billEditorVars>>

billPageVars == <<billQueueItems, billCompletedItems, billSelectedItem,
                  showFeePopup, editingFee>>

flightVars == <<markPreparedFlight, sweepFlight>>

vars == <<storeVars, doctorVars, medicineBillVars, pharmPageVars, billPageVars,
          markPreparedSeen, flightVars>>

\* pharmacy queue items in the order pharmacyQueueDb.getAll() returns them
PharmIds == SelectSeq(<<"q1", "q2", "q3">>, LAMBDA q : q \in DOMAIN pharmacyQueue)

PharmIdSet == {PharmIds[i] : i \in 1..Len(PharmIds)}

\* ---------------------------------------------------------------------
\* Record store operations (lib/db, not part of the sources at hand)
\* ---------------------------------------------------------------------
\* pharmacyQueueDb.update(id, {status}): no-op when the id is unknown
PharmacyUpdateStatus(pq, id, st) ==
    IF id \in DOMAIN pq THEN [pq EXCEPT ![id].status = st] ELSE pq

\* pharmacyQueueDb.markPrepared(id, by)
PharmacyMarkPrepared(pq, id, by) ==
    IF id \in DOMAIN pq
    THEN [pq EXCEPT ![id].status = "prepared", ![id].preparedBy = by]
    ELSE pq

\* pharmacyQueueDb.stop(id, reason)
PharmacyStop(pq, id, reason) ==
    IF id \in DOMAIN pq
    THEN [pq EXCEPT ![id].status = "stopped", ![id].stopReason = reason]
    ELSE pq

\* appointmentDb.update(id, {status})
AppointmentUpdateStatus(ap, id, st) ==
    IF id \in DOMAIN ap THEN [ap EXCEPT ![id].status = st] ELSE ap

\* appointmentDb.update(id, {feeAmount, feeType})
AppointmentUpdateFee(ap, id, amount, type) ==
    IF id \in DOMAIN ap
    THEN [ap EXCEPT ![id].feeAmount = Some(amount), ![id].feeType = type]
    ELSE ap

\* appointmentDb.getByPatient(patientId), as a sequence of ids
RECURSIVE FilterAppts(_, _, _)
FilterAppts(ap, ids, pid) ==
    IF ids = << >> THEN << >>
    ELSE IF Head(ids) \in DOMAIN ap /\ ap[Head(ids)].patientId = pid
         THEN <<Head(ids)>> \o FilterAppts(ap, Tail(ids), pid)
         ELSE FilterAppts(ap, Tail(ids), pid)

AppointmentsByPatient(ap, pid) == FilterAppts(ap, ApptIds, pid)

\* billingQueueDb.create(item): the store assigns the id
BillingCreate(bq, item) ==
    Append(bq, [item EXCEPT !.id = Len(bq) + 1])

\* index of the billing item with this id, 0 when there is none
BillingIndex(bq, id) ==
    IF \E i \in 1..Len(bq) : bq[i].id = id
    THEN CHOOSE i \in 1..Len(bq) : bq[i].id = id
    ELSE 0

\* billingQueueDb.markPaid(id, paymentMethod, receiptNumber)
BillingMarkPaid(bq, id, method, receiptNumber) ==
    LET i == BillingIndex(bq, id) IN
    IF i = 0 THEN bq
    ELSE [bq EXCEPT ![i].status = "paid", ![i].paymentMethod = method,
                    ![i].receiptNumber = Some(receiptNumber)]

\* billingQueueDb.markCompleted(id)
BillingMarkCompleted(bq, id) ==
    LET i == BillingIndex(bq, id) IN
    IF i = 0 THEN bq ELSE [bq EXCEPT ![i].status = "completed"]

\* ---------------------------------------------------------------------
\* Same-day tests on an appointment's date.  The pharmacy page compares
\* ISO (UTC) date strings, the billing page a local midnight-to-midnight
\* range; an appointment dated "today" passes both, one dated "other"
\* passes neither.  Away from UTC the two tests differ near midnight: an
\* appointment dated "utc-only" has today's UTC date but lies outside the
\* local day, one dated "local-only" lies in the local day but has another
\* UTC date.
\* ---------------------------------------------------------------------
SameDayISO(apt) == apt.day \in {"today", "utc-only"}

SameDayLocal(apt) == apt.day \in {"today", "local-only"}

\* patientAppointments.find(apt => aptDate === today && status in statuses)
\* of the pharmacy page: the id of the first match, "" when there is none
RECURSIVE FindSameDayISO(_, _, _)
FindSameDayISO(ap, ids, statuses) ==
    IF ids = << >> THEN ""
    ELSE IF SameDayISO(ap[Head(ids)]) /\ ap[Head(ids)].status \in statuses
         THEN Head(ids)
         ELSE FindSameDayISO(ap, Tail(ids), statuses)

\* patientAppointments.find(apt => aptDate >= today && aptDate <= todayEnd)
\* of the billing page
RECURSIVE FindSameDayLocal(_, _)
FindSameDayLocal(ap, ids) ==
    IF ids = << >> THEN ""
    ELSE IF SameDayLocal(ap[Head(ids)]) THEN Head(ids)
         ELSE FindSameDayLocal(ap, Tail(ids))

\* the lookup as it was before the duplicate fix: pending items only
ExistingBillingPendingOnly(bq, visitId) ==
    \E i \in 1..Len(bq) : bq[i].visitId = visitId /\ bq[i].status = "pending"

\* find(b => b.visitId === visitId) over billingQueueDb.getAll()
ExistingBilling(bq, visitId) ==
    \E i \in 1..Len(bq) : bq[i].visitId = visitId

\* =====================================================================
\* Pharmacy page (src/app/pharmacy/page.tsx)
\* =====================================================================
\* the list snapshot loadQueue takes of the items in the given statuses
PharmSnapshot(pq, statuses) ==
    {[id |-> q, status |-> pq[q].status] : q \in {x \in DOMAIN pq : pq[x].status \in statuses}}

\* allItems.filter(item => statuses.includes(item.status)), in getAll's order
RECURSIVE FilterByStatus(_, _, _)
FilterByStatus(pq, ids, statuses) ==
    IF ids = << >> THEN << >>
    ELSE IF pq[Head(ids)].status \in statuses
         THEN <<pq[Head(ids)]>> \o FilterByStatus(pq, Tail(ids), statuses)
         ELSE FilterByStatus(pq, Tail(ids), statuses)

\* a comparator that looks at the creation time only
CompareItemsByTime(a, b) == a.createdAt - b.createdAt

\* the comparator of sortItems: negative when a goes before b
CompareItems(a, b) ==
    IF a.priority /\ ~b.priority THEN -1
    ELSE IF ~a.priority /\ b.priority THEN 1
    ELSE a.createdAt - b.createdAt

\* Array.prototype.sort is stable: an item goes before the first item it
\* compares below, behind the items it compares equal to
RECURSIVE InsertSorted(_, _)
InsertSorted(x, sorted) ==
    IF sorted = << >> THEN <<x>>
    ELSE IF CompareItems(x, Head(sorted)) < 0 THEN <<x>> \o sorted
         ELSE <<Head(sorted)>> \o InsertSorted(x, Tail(sorted))

\* sortItems(items) = items.sort(comparator)
RECURSIVE sortItems(_)
sortItems(items) ==
    IF items = << >> THEN << >>
    ELSE InsertSorted(items[Len(items)], sortItems(SubSeq(items, 1, Len(items) - 1)))

\* prescriptions.map(p => p.id).join(',')
RECURSIVE JoinIds(_)
JoinIds(ids) ==
    IF ids = << >> THEN ""
    ELSE IF Len(ids) = 1 THEN ids[1]
         ELSE ids[1] \o "," \o JoinIds(Tail(ids))

\* a flag that is also raised the first time an item is seen
HasUpdatesUnlessSame(previousIds, currentPrescriptionIds) ==
    previousIds # Some(currentPrescriptionIds)

\* hasUpdates = previousIds !== undefined && previousIds !== currentPrescriptionIds
HasUpdates(previousIds, currentPrescriptionIds) ==
    previousIds # None /\ previousIds[1] # currentPrescriptionIds

\* enrichItems(items): the rows with their update flag, and the ref map
\* after its set() calls
RECURSIVE EnrichItems(_, _, _)
EnrichItems(items, rx, marks) ==
    IF items = << >> THEN [rows |-> << >>, marks |-> marks]
    ELSE LET item == Head(items)
             currentPrescriptionIds == JoinIds(rx[item.visitId])
             row == [id |-> item.id, status |-> item.status,
                     priority |-> item.priority, createdAt |-> item.createdAt,
                     hasUpdates |-> HasUpdates(marks[item.id], currentPrescriptionIds)]
             rest == EnrichItems(Tail(items), rx,
                         [marks EXCEPT ![item.id] = Some(currentPrescriptionIds)])
         IN [rows |-> <<row>> \o rest.rows, marks |-> rest.marks]

\* a loadQueue that leaves the ref map as it found it
PharmLoadedKeepsMarks(pq, rx, marks) ==
    LET active == EnrichItems(sortItems(FilterByStatus(pq, PharmIds, {"pending", "preparing"})),
                              rx, marks)
        prepared == EnrichItems(sortItems(FilterByStatus(pq, PharmIds, {"prepared"})),
                                rx, active.marks)
    IN [active |-> active.rows, prepared |-> prepared.rows, marks |-> marks]

\* the body of loadQueue: filter, sort and enrich the active items, then
\* the prepared items
PharmLoaded(pq, rx, marks) ==
    LET active == EnrichItems(sortItems(FilterByStatus(pq, PharmIds, {"pending", "preparing"})),
                              rx, marks)
        prepared == EnrichItems(sortItems(FilterByStatus(pq, PharmIds, {"prepared"})),
                                rx, active.marks)
    IN [active |-> active.rows, prepared |-> prepared.rows, marks |-> prepared.marks]

\* lastUpdateTime is useState(0), and the page never calls
\* setLastUpdateTime: the state keeps its initial value
lastUpdateTime == 0

\* enrichedActiveItems.filter(item => item.hasUpdates).length
ItemsWithUpdates(rows) == Cardinality({i \in 1..Len(rows) : rows[i].hasUpdates})

\* the notification after a load: set when active items were flagged and
\* lastUpdateTime > 0, left as it is otherwise (the timeout that clears it
\* is set together with it)
NotificationAfter(current, active) ==
    IF ItemsWithUpdates(active) > 0 /\ lastUpdateTime > 0
    THEN Some(ItemsWithUpdates(active))
    ELSE current

\* loadQueue: refresh both lists from the store
PharmLoadQueueInto(pq) ==
    /\ pharmQueueItems' = PharmSnapshot(pq, {"pending", "preparing"})
    /\ pharmPreparedItems' = PharmSnapshot(pq, {"prepared"})
    /\ LET loaded == PharmLoaded(pq, doctorPrescriptions, previousPrescriptionIds) IN
       /\ pharmQueueRows' = loaded.active
       /\ pharmPreparedRows' = loaded.prepared
       /\ previousPrescriptionIds' = loaded.marks
       /\ notification' = NotificationAfter(notification, loaded.active)

\* an action button for the item is on screen: in a list row for a listed
\* item whose snapshot has one of the statuses, or in the detail panel for
\* the selected item
InList(list, id, statuses) ==
    \E it \in list : it.id = id /\ it.status \in statuses

IsSelected(id, statuses) ==
    /\ pharmSelectedItem # None
    /\ pharmSelectedItem[1].id = id
    /\ pharmSelectedItem[1].status \in statuses

\* the 5-second poll
PharmLoadQueue ==
    /\ PharmLoadQueueInto(pharmacyQueue)
    /\ UNCHANGED <<doctorVars, medicineBillVars, flightVars, markPreparedSeen, storeVars, pharmSelectedItem, billPageVars>>

\* click on a list row: setSelectedItem(item)
PharmSelectItem(itemId) ==
    /\ \E it \in pharmQueueItems \cup pharmPreparedItems :
          /\ it.id = itemId
          /\ pharmSelectedItem' = Some(it)
    /\ UNCHANGED <<doctorVars, medicineBillVars, flightVars, markPreparedSeen, storeVars, pharmListVars, billPageVars>>

\* click on a tab: setSelectedItem(null)
PharmSwitchTab ==
    /\ pharmSelectedItem # None
    /\ pharmSelectedItem' = None
    /\ UNCHANGED <<doctorVars, medicineBillVars, flightVars, markPreparedSeen, storeVars, pharmListVars, billPageVars>>

HandleStartPreparing(itemId) ==
    /\ InList(pharmQueueItems, itemId, {"pending"}) \/ IsSelected(itemId, {"pending"})
    /\ pharmacyQueue' = PharmacyUpdateStatus(pharmacyQueue, itemId, "preparing")
    /\ PharmLoadQueueInto(pharmacyQueue')
    /\ pharmSelectedItem' =
          IF /\ pharmSelectedItem # None
             /\ pharmSelectedItem[1].id = itemId
             /\ \E q \in pharmQueueItems : q.id = itemId
          THEN Some([id |-> itemId, status |-> "preparing"])
          ELSE pharmSelectedItem
    /\ UNCHANGED <<doctorVars, medicineBillVars, flightVars, markPreparedSeen, billingQueue, appointments, billingReceipts, feeHistory, fees,
                   receiptCounter, billPageVars>>

\* the fee markPrepared gives the billing item it creates
MarkPreparedFee(ap, relevantAppointment, visit) ==
    IF relevantAppointment # ""
    THEN LET apt == ap[relevantAppointment] IN
         [feeAmount |-> IF apt.feeAmount # None THEN apt.feeAmount[1] ELSE 300,
          feeType   |-> IF apt.feeType # "" THEN apt.feeType ELSE "Follow Up"]
    ELSE IF visit.visitNumber = 1
         THEN [feeAmount |-> 500, feeType |-> "New Patient"]
         ELSE [feeAmount |-> 300, feeType |-> "Follow Up"]


\* a new billing queue item that drops the appointment link
NewBillingItemUnlinked(pharmacyItem, fee) ==
    [id              |-> 0,
     visitId         |-> pharmacyItem.visitId,
     patientId       |-> pharmacyItem.patientId,
     appointmentId   |-> "",
     prescriptionIds |-> pharmacyItem.prescriptionIds,
     status          |-> "pending",
     feeAmount       |-> fee.feeAmount,
     feeType         |-> fee.feeType,
     discountPercent |-> None,
     discountAmount  |-> None,
     netAmount       |-> fee.feeAmount,
     paymentMethod   |-> "",
     paymentStatus   |-> "pending",
     receiptNumber   |-> None,
     notes           |-> ""]

\* a new billing queue item for a pharmacy item, as both admission paths build it
NewBillingItem(pharmacyItem, fee) ==
    [id              |-> 0,
     visitId         |-> pharmacyItem.visitId,
     patientId       |-> pharmacyItem.patientId,
     appointmentId   |-> pharmacyItem.appointmentId,
     prescriptionIds |-> pharmacyItem.prescriptionIds,
     status          |-> "pending",
     feeAmount       |-> fee.feeAmount,
     feeType         |-> fee.feeType,
     discountPercent |-> None,
     discountAmount  |-> None,
     netAmount       |-> fee.feeAmount,
     paymentMethod   |-> "",
     paymentStatus   |-> "pending",
     receiptNumber   |-> None,
     notes           |-> ""]

\* inline admission that leaves the create to the sweep
MarkPreparedAdmitNever(bq, ap, pharmacyItem, relevantAppointment) == bq

\* inline admission without the existence check
MarkPreparedAdmitAlways(bq, ap, pharmacyItem, relevantAppointment) ==
    BillingCreate(bq, NewBillingItem(pharmacyItem,
        MarkPreparedFee(ap, relevantAppointment, DoctorVisit(pharmacyItem.visitId))))

\* the billing queue after markPrepared's inline admission
MarkPreparedAdmit(bq, ap, pharmacyItem, relevantAppointment) ==
    IF ~ExistingBilling(bq, pharmacyItem.visitId)
    THEN BillingCreate(bq, NewBillingItem(pharmacyItem,
             MarkPreparedFee(ap, relevantAppointment, DoctorVisit(pharmacyItem.visitId))))
    ELSE bq

\* a markPrepared that updates the day's appointment whether or not the
\* item was found
HandleMarkPreparedUnchecked(itemId) ==
    /\ InList(pharmQueueItems, itemId, {"preparing"}) \/ IsSelected(itemId, {"preparing"})
    /\ pharmacyQueue' = PharmacyMarkPrepared(pharmacyQueue, itemId, "pharmacy")
    /\ LET patientAppointments ==
               IF itemId \in DOMAIN pharmacyQueue
               THEN AppointmentsByPatient(appointments, pharmacyQueue[itemId].patientId)
               ELSE ApptIds
           relevantAppointment ==
               FindSameDayISO(appointments, patientAppointments, {"completed", "in-progress"})
       IN /\ appointments' =
                IF relevantAppointment # ""
                THEN AppointmentUpdateStatus(appointments, relevantAppointment,
                                             "medicines-prepared")
                ELSE appointments
          /\ billingQueue' =
                IF itemId \in DOMAIN pharmacyQueue
                THEN MarkPreparedAdmit(billingQueue, appointments, pharmacyQueue[itemId],
                                       relevantAppointment)
                ELSE billingQueue
    /\ PharmLoadQueueInto(pharmacyQueue')
    /\ pharmSelectedItem' =
          IF pharmSelectedItem # None /\ pharmSelectedItem[1].id = itemId
          THEN None ELSE pharmSelectedItem
    /\ markPreparedSeen' =
          [markPreparedSeen EXCEPT ![itemId] = IF @ = "never" THEN "once" ELSE "again"]
    /\ UNCHANGED <<doctorVars, medicineBillVars, flightVars, billingReceipts, feeHistory,
                   fees, receiptCounter, billPageVars>>

HandleMarkPrepared(itemId) ==
    /\ InList(pharmQueueItems, itemId, {"preparing"}) \/ IsSelected(itemId, {"preparing"})
    /\ pharmacyQueue' = PharmacyMarkPrepared(pharmacyQueue, itemId, "pharmacy")
    /\ IF itemId \in DOMAIN pharmacyQueue
       THEN LET pharmacyItem == pharmacyQueue[itemId]
                relevantAppointment ==
                    FindSameDayISO(appointments,
                                   AppointmentsByPatient(appointments, pharmacyItem.patientId),
                                   {"completed", "in-progress"})
            IN /\ appointments' =
                     IF relevantAppointment # ""
                     THEN AppointmentUpdateStatus(appointments, relevantAppointment,
                                                  "medicines-prepared")
                     ELSE appointments
               /\ billingQueue' = MarkPreparedAdmit(billingQueue, appointments,
                                                    pharmacyItem, relevantAppointment)
       ELSE UNCHANGED <<appointments, billingQueue>>
    /\ PharmLoadQueueInto(pharmacyQueue')
    /\ pharmSelectedItem' =
          IF pharmSelectedItem # None /\ pharmSelectedItem[1].id = itemId
          THEN None ELSE pharmSelectedItem
    /\ markPreparedSeen' =
          [markPreparedSeen EXCEPT ![itemId] = IF @ = "never" THEN "once" ELSE "again"]
    /\ UNCHANGED <<doctorVars, medicineBillVars, flightVars, billingReceipts, feeHistory, fees, receiptCounter, billPageVars>>

\* a reopen that leaves the day's appointment as markPrepared set it
HandlePharmReopenKeepsAppointment(itemId) ==
    /\ InList(pharmPreparedItems, itemId, {"prepared"}) \/ IsSelected(itemId, {"prepared"})
    /\ pharmacyQueue' = PharmacyUpdateStatus(pharmacyQueue, itemId, "pending")
    /\ UNCHANGED appointments
    /\ PharmLoadQueueInto(pharmacyQueue')
    /\ pharmSelectedItem' =
          IF /\ pharmSelectedItem # None
             /\ pharmSelectedItem[1].id = itemId
             /\ \E q \in pharmPreparedItems : q.id = itemId
          THEN Some([id |-> itemId, status |-> "pending"])
          ELSE pharmSelectedItem
    /\ UNCHANGED <<doctorVars, medicineBillVars, flightVars, markPreparedSeen, billingQueue, billingReceipts, feeHistory, fees, receiptCounter,
                   billPageVars>>

\* pharmacy-side reopen: bring a prepared item back to the active queue
HandlePharmReopen(itemId) ==
    /\ InList(pharmPreparedItems, itemId, {"prepared"}) \/ IsSelected(itemId, {"prepared"})
    /\ pharmacyQueue' = PharmacyUpdateStatus(pharmacyQueue, itemId, "pending")
    /\ IF itemId \in DOMAIN pharmacyQueue
       THEN LET pharmacyItem == pharmacyQueue[itemId]
                relevantAppointment ==
                    FindSameDayISO(appointments,
                                   AppointmentsByPatient(appointments, pharmacyItem.patientId),
                                   {"medicines-prepared"})
            IN appointments' =
                  IF relevantAppointment # ""
                  THEN AppointmentUpdateStatus(appointments, relevantAppointment, "completed")
                  ELSE appointments
       ELSE UNCHANGED appointments
    /\ PharmLoadQueueInto(pharmacyQueue')
    /\ pharmSelectedItem' =
          IF /\ pharmSelectedItem # None
             /\ pharmSelectedItem[1].id = itemId
             /\ \E q \in pharmPreparedItems : q.id = itemId
          THEN Some([id |-> itemId, status |-> "pending"])
          ELSE pharmSelectedItem
    /\ UNCHANGED <<doctorVars, medicineBillVars, flightVars, markPreparedSeen, billingQueue, billingReceipts, feeHistory, fees, receiptCounter,
                   billPageVars>>

\* a stop that leaves the detail panel open on the stopped item
HandleStopKeepSelection(itemId) ==
    /\ IsSelected(itemId, {"pending", "preparing"})
    /\ pharmacyQueue' = PharmacyStop(pharmacyQueue, itemId, "reason")
    /\ PharmLoadQueueInto(pharmacyQueue')
    /\ UNCHANGED <<doctorVars, medicineBillVars, flightVars, markPreparedSeen, billingQueue, appointments,
                   billingReceipts, feeHistory, fees, receiptCounter, billPageVars,
                   pharmSelectedItem>>

HandleStop(itemId) ==
    /\ IsSelected(itemId, {"pending", "preparing"})
    /\ pharmacyQueue' = PharmacyStop(pharmacyQueue, itemId, "reason")
    /\ PharmLoadQueueInto(pharmacyQueue')
    /\ pharmSelectedItem' = None
    /\ UNCHANGED <<doctorVars, medicineBillVars, flightVars, markPreparedSeen, billingQueue, appointments, billingReceipts, feeHistory, fees,
                   receiptCounter, billPageVars>>

\* =====================================================================
\* Billing page (latest revision of src/app/billing/page.tsx)
\* =====================================================================
\* a resync that takes the resolved fee as the net amount
ResyncItemResetDiscount(ap, item) ==
    IF item.status # "pending" THEN item
    ELSE
    LET linked == IF item.appointmentId # "" /\ item.appointmentId \in DOMAIN ap
                     /\ ap[item.appointmentId].feeAmount # None
                  THEN item.appointmentId ELSE ""
        todayAppointment ==
            FindSameDayLocal(ap, AppointmentsByPatient(ap, item.patientId))
        source == IF linked # "" THEN linked
                  ELSE IF todayAppointment # "" /\ ap[todayAppointment].feeAmount # None
                       THEN todayAppointment ELSE ""
        correctFee == IF source # "" THEN ap[source].feeAmount[1] ELSE item.feeAmount
        correctFeeType == IF source # "" /\ ap[source].feeType # ""
                          THEN ap[source].feeType ELSE item.feeType
        correctPaymentStatus == IF source # "" /\ ap[source].feeStatus # ""
                                THEN ap[source].feeStatus ELSE item.paymentStatus
    IN IF \/ correctFee # item.feeAmount
          \/ correctFeeType # item.feeType
          \/ correctPaymentStatus # item.paymentStatus
       THEN [item EXCEPT !.feeAmount = correctFee,
                         !.feeType = correctFeeType,
                         !.paymentStatus = correctPaymentStatus,
                         !.netAmount = correctFee]
       ELSE item

\* a resync that also writes the discount it subtracted
ResyncItemWritesDiscount(ap, item) ==
    IF item.status # "pending" THEN item
    ELSE
    LET linked == IF item.appointmentId # "" /\ item.appointmentId \in DOMAIN ap
                     /\ ap[item.appointmentId].feeAmount # None
                  THEN item.appointmentId ELSE ""
        todayAppointment ==
            FindSameDayLocal(ap, AppointmentsByPatient(ap, item.patientId))
        source == IF linked # "" THEN linked
                  ELSE IF todayAppointment # "" /\ ap[todayAppointment].feeAmount # None
                       THEN todayAppointment ELSE ""
        correctFee == IF source # "" THEN ap[source].feeAmount[1] ELSE item.feeAmount
        correctFeeType == IF source # "" /\ ap[source].feeType # ""
                          THEN ap[source].feeType ELSE item.feeType
        correctPaymentStatus == IF source # "" /\ ap[source].feeStatus # ""
                                THEN ap[source].feeStatus ELSE item.paymentStatus
    IN IF \/ correctFee # item.feeAmount
          \/ correctFeeType # item.feeType
          \/ correctPaymentStatus # item.paymentStatus
       THEN [item EXCEPT !.feeAmount = correctFee,
                         !.feeType = correctFeeType,
                         !.paymentStatus = correctPaymentStatus,
                         !.discountAmount = Some(OrZero(item.discountAmount)),
                         !.netAmount = correctFee - OrZero(item.discountAmount)]
       ELSE item

\* a resync that falls back to the net amount when no appointment has a fee
ResyncItemFromNet(ap, item) ==
    IF item.status # "pending" THEN item
    ELSE
    LET linked == IF item.appointmentId # "" /\ item.appointmentId \in DOMAIN ap
                     /\ ap[item.appointmentId].feeAmount # None
                  THEN item.appointmentId ELSE ""
        todayAppointment ==
            FindSameDayLocal(ap, AppointmentsByPatient(ap, item.patientId))
        source == IF linked # "" THEN linked
                  ELSE IF todayAppointment # "" /\ ap[todayAppointment].feeAmount # None
                       THEN todayAppointment ELSE ""
        correctFee == IF source # "" THEN ap[source].feeAmount[1] ELSE item.netAmount
        correctFeeType == IF source # "" /\ ap[source].feeType # ""
                          THEN ap[source].feeType ELSE item.feeType
        correctPaymentStatus == IF source # "" /\ ap[source].feeStatus # ""
                                THEN ap[source].feeStatus ELSE item.paymentStatus
    IN IF \/ correctFee # item.feeAmount
          \/ correctFeeType # item.feeType
          \/ correctPaymentStatus # item.paymentStatus
       THEN [item EXCEPT !.feeAmount = correctFee,
                         !.feeType = correctFeeType,
                         !.paymentStatus = correctPaymentStatus,
                         !.netAmount = correctFee - OrZero(item.discountAmount)]
       ELSE item

\* fee resync of loadQueue for one stored item
ResyncItem(ap, item) ==
    IF item.status # "pending" THEN item
    ELSE
    LET linked == IF item.appointmentId # "" /\ item.appointmentId \in DOMAIN ap
                     /\ ap[item.appointmentId].feeAmount # None
                  THEN item.appointmentId ELSE ""
        todayAppointment ==
            FindSameDayLocal(ap, AppointmentsByPatient(ap, item.patientId))
        source == IF linked # "" THEN linked
                  ELSE IF todayAppointment # "" /\ ap[todayAppointment].feeAmount # None
                       THEN todayAppointment ELSE ""
        correctFee == IF source # "" THEN ap[source].feeAmount[1] ELSE item.feeAmount
        correctFeeType == IF source # "" /\ ap[source].feeType # ""
                          THEN ap[source].feeType ELSE item.feeType
        correctPaymentStatus == IF source # "" /\ ap[source].feeStatus # ""
                                THEN ap[source].feeStatus ELSE item.paymentStatus
    IN IF \/ correctFee # item.feeAmount
          \/ correctFeeType # item.feeType
          \/ correctPaymentStatus # item.paymentStatus
       THEN [item EXCEPT !.feeAmount = correctFee,
                         !.feeType = correctFeeType,
                         !.paymentStatus = correctPaymentStatus,
                         !.netAmount = correctFee - OrZero(item.discountAmount)]
       ELSE item

\* the billing queue as loadQueue leaves it
Resync(ap, bq) == [i \in 1..Len(bq) |-> ResyncItem(ap, bq[i])]

\* loadQueue: the two lists taken from the store after the resync
BillLoadQueueInto(bq) ==
    /\ billQueueItems' = {bq[i] : i \in {j \in 1..Len(bq) : bq[j].status \in {"pending", "paid"}}}
    /\ billCompletedItems' = {bq[i] : i \in {j \in 1..Len(bq) : bq[j].status = "completed"}}

\* a sweep fee whose later visits keep the default fee type
SweepFeeDefaultType(ap, pharmacyItem, visit) ==
    IF pharmacyItem.appointmentId # ""
    THEN IF pharmacyItem.appointmentId \in DOMAIN ap
         THEN LET apt == ap[pharmacyItem.appointmentId] IN
              [feeAmount |-> IF apt.feeAmount # None THEN apt.feeAmount[1] ELSE 300,
               feeType   |-> IF apt.feeType # "" THEN apt.feeType ELSE "Consultation"]
         ELSE [feeAmount |-> 300, feeType |-> "Consultation"]
    ELSE LET todayAppointment ==
                 FindSameDayLocal(ap, AppointmentsByPatient(ap, pharmacyItem.patientId))
         IN IF todayAppointment # ""
            THEN LET apt == ap[todayAppointment] IN
                 [feeAmount |-> IF apt.feeAmount # None THEN apt.feeAmount[1] ELSE 300,
                  feeType   |-> IF apt.feeType # "" THEN apt.feeType ELSE "Consultation"]
            ELSE IF visit.visitNumber = 1
                 THEN [feeAmount |-> 500, feeType |-> "New Patient"]
                 ELSE [feeAmount |-> 300, feeType |-> "Consultation"]

\* the fee the sweep gives the billing item it creates
SweepFee(ap, pharmacyItem, visit) ==
    IF pharmacyItem.appointmentId # ""
    THEN IF pharmacyItem.appointmentId \in DOMAIN ap
         THEN LET apt == ap[pharmacyItem.appointmentId] IN
              [feeAmount |-> IF apt.feeAmount # None THEN apt.feeAmount[1] ELSE 300,
               feeType   |-> IF apt.feeType # "" THEN apt.feeType ELSE "Consultation"]
         ELSE [feeAmount |-> 300, feeType |-> "Consultation"]
    ELSE LET todayAppointment ==
                 FindSameDayLocal(ap, AppointmentsByPatient(ap, pharmacyItem.patientId))
         IN IF todayAppointment # ""
            THEN LET apt == ap[todayAppointment] IN
                 [feeAmount |-> IF apt.feeAmount # None THEN apt.feeAmount[1] ELSE 300,
                  feeType   |-> IF apt.feeType # "" THEN apt.feeType ELSE "Consultation"]
            ELSE IF visit.visitNumber = 1
                 THEN [feeAmount |-> 500, feeType |-> "New Patient"]
                 ELSE [feeAmount |-> 300, feeType |-> "Follow Up"]

\* a forEach body that creates for every prepared item it sees
AdmitPreparedCreateOnly(st, ap, pharmacyItem) ==
    [st EXCEPT !.bq = BillingCreate(st.bq, NewBillingItem(pharmacyItem,
                          SweepFee(ap, pharmacyItem, DoctorVisit(pharmacyItem.visitId))))]

\* body of the sweep's forEach for one prepared pharmacy item; st holds the
\* billing queue bq and the pharmacy queue pq as the store has them
AdmitPrepared(st, ap, pharmacyItem) ==
    IF ~ExistingBilling(st.bq, pharmacyItem.visitId)
    THEN [bq |-> BillingCreate(st.bq, NewBillingItem(pharmacyItem,
                     SweepFee(ap, pharmacyItem, DoctorVisit(pharmacyItem.visitId)))),
          pq |-> PharmacyUpdateStatus(st.pq, pharmacyItem.id, "billed")]
    ELSE st

\* preparedPharmacyItems.forEach(...)
RECURSIVE SweepItems(_, _, _)
SweepItems(st, ap, items) ==
    IF items = << >> THEN st
    ELSE SweepItems(AdmitPrepared(st, ap, Head(items)), ap, Tail(items))

\* a filter on the wrong status
RECURSIVE PreparedPharmacyItemsBilled(_, _)
PreparedPharmacyItemsBilled(pq, ids) ==
    IF ids = << >> THEN << >>
    ELSE IF Head(ids) \in DOMAIN pq /\ pq[Head(ids)].status = "billed"
         THEN <<pq[Head(ids)]>> \o PreparedPharmacyItemsBilled(pq, Tail(ids))
         ELSE PreparedPharmacyItemsBilled(pq, Tail(ids))

\* allPharmacyItems.filter(item => item.status === 'prepared')
RECURSIVE PreparedPharmacyItems(_, _)
PreparedPharmacyItems(pq, ids) ==
    IF ids = << >> THEN << >>
    ELSE IF Head(ids) \in DOMAIN pq /\ pq[Head(ids)].status = "prepared"
         THEN <<pq[Head(ids)]>> \o PreparedPharmacyItems(pq, Tail(ids))
         ELSE PreparedPharmacyItems(pq, Tail(ids))

\* store after the admission part of checkPharmacyQueue
SweepResult(bq, pq, ap) ==
    SweepItems([bq |-> bq, pq |-> pq], ap, PreparedPharmacyItems(pq, PharmIds))

\* the 3-second Billing Admission sweep, with the loadQueue that ends it
CheckPharmacyQueue ==
    LET r == SweepResult(billingQueue, pharmacyQueue, appointments) IN
    /\ pharmacyQueue' = r.pq
    /\ billingQueue' = Resync(appointments, r.bq)
    /\ BillLoadQueueInto(billingQueue')
    /\ UNCHANGED <<doctorVars, medicineBillVars, flightVars, markPreparedSeen, appointments, billingReceipts, feeHistory, fees, receiptCounter,
                   pharmPageVars, billSelectedItem, showFeePopup, editingFee>>

\* the Refresh button
BillLoadQueue ==
    /\ ~showFeePopup
    /\ billingQueue' = Resync(appointments, billingQueue)
    /\ BillLoadQueueInto(billingQueue')
    /\ UNCHANGED <<doctorVars, medicineBillVars, flightVars, markPreparedSeen, pharmacyQueue, appointments, billingReceipts, feeHistory, fees,
                   receiptCounter, pharmPageVars, billSelectedItem, showFeePopup,
                   editingFee>>

\* billingQueueDb.update(id, fields) for the fields the fee popup saves
BillingUpdateFee(bq, id, e) ==
    LET i == BillingIndex(bq, id) IN
    IF i = 0 THEN bq
    ELSE [bq EXCEPT ![i].feeAmount = e.feeAmount,
                    ![i].discountPercent = Some(e.discountPercent),
                    ![i].discountAmount = Some(e.discountAmount),
                    ![i].netAmount = e.netAmount,
                    ![i].paymentMethod = e.paymentMethod,
                    ![i].notes = e.notes]

\* billingQueueDb.update(id, {status})
BillingUpdateStatus(bq, id, st) ==
    LET i == BillingIndex(bq, id) IN
    IF i = 0 THEN bq ELSE [bq EXCEPT ![i].status = st]

\* db.update('fees', relatedFee.id, {amount}) on the first fee record of
\* the patient and visit, if there is one
FeesUpdateRelated(fs, patientId, visitId, amount) ==
    LET match == {i \in 1..Len(fs) : fs[i].patientId = patientId /\ fs[i].visitId = visitId}
    IN IF match = {} THEN fs
       ELSE LET k == CHOOSE i \in match : \A j \in match : i <= j
            IN [fs EXCEPT ![k].amount = amount]

\* the Edit Fee button of a listed pending or paid item opens the popup
HandleEditFee(item) ==
    /\ ~showFeePopup
    /\ item \in billQueueItems
    /\ item.status \in {"pending", "paid"}
    /\ billSelectedItem' = Some(item)
    /\ editingFee' = [feeAmount       |-> item.feeAmount,
                      discountPercent |-> OrZero(item.discountPercent),
                      discountAmount  |-> OrZero(item.discountAmount),
                      netAmount       |-> item.netAmount,
                      paymentMethod   |-> OrCash(item.paymentMethod),
                      notes           |-> item.notes]
    /\ showFeePopup' = TRUE
    /\ UNCHANGED <<doctorVars, medicineBillVars, flightVars, markPreparedSeen, storeVars, pharmPageVars, billQueueItems, billCompletedItems>>

calculateNetAmount(feeAmount, discountPercent) ==
    feeAmount - ((feeAmount * discountPercent) \div 100)

HandleFeeAmountChange(value) ==
    /\ showFeePopup
    /\ editingFee' = [editingFee EXCEPT
                        !.feeAmount = value,
                        !.discountAmount = (value * editingFee.discountPercent) \div 100,
                        !.netAmount = calculateNetAmount(value, editingFee.discountPercent)]
    /\ UNCHANGED <<doctorVars, medicineBillVars, flightVars, markPreparedSeen, storeVars, pharmPageVars, billQueueItems, billCompletedItems,
                   billSelectedItem, showFeePopup>>

HandleDiscountChange(value) ==
    /\ showFeePopup
    /\ editingFee' = [editingFee EXCEPT
                        !.discountPercent = value,
                        !.discountAmount = (editingFee.feeAmount * value) \div 100,
                        !.netAmount = editingFee.feeAmount
                                        - ((editingFee.feeAmount * value) \div 100)]
    /\ UNCHANGED <<doctorVars, medicineBillVars, flightVars, markPreparedSeen, storeVars, pharmPageVars, billQueueItems, billCompletedItems,
                   billSelectedItem, showFeePopup>>

\* editingFee as useState initialises it
InitialEditingFee ==
    [feeAmount |-> 0, discountPercent |-> 0, discountAmount |-> 0,
     netAmount |-> 0, paymentMethod |-> "cash", notes |-> ""]

\* setShowFeePopup(false).  selectedItem and editingFee are read only while
\* the popup is shown (its inputs and handleSaveFee) and handleEditFee sets
\* both when it opens the popup, so the model keeps them only while the
\* popup is shown.
CloseFeePopup ==
    /\ showFeePopup' = FALSE
    /\ billSelectedItem' = None
    /\ editingFee' = InitialEditingFee

\* the Cancel button of the popup
CancelFeePopup ==
    /\ showFeePopup
    /\ CloseFeePopup
    /\ UNCHANGED <<doctorVars, medicineBillVars, flightVars, markPreparedSeen, storeVars, pharmPageVars, billQueueItems,
                   billCompletedItems>>

\* a save that also rewrites the receipt of the edited item
HandleSaveFeeSyncReceipt ==
    /\ showFeePopup
    /\ billSelectedItem # None
    /\ LET selectedItem == billSelectedItem[1] IN
       /\ appointments' =
             IF selectedItem.appointmentId # ""
             THEN AppointmentUpdateFee(appointments, selectedItem.appointmentId,
                                       editingFee.feeAmount, selectedItem.feeType)
             ELSE appointments
       /\ fees' = FeesUpdateRelated(fees, selectedItem.patientId, selectedItem.visitId,
                                    editingFee.feeAmount)
       /\ billingQueue' = Resync(appointments',
                                 BillingUpdateFee(billingQueue, selectedItem.id, editingFee))
       /\ billingReceipts' =
             [k \in 1..Len(billingReceipts) |->
                 IF billingReceipts[k].billingQueueId = selectedItem.id
                 THEN [billingReceipts[k] EXCEPT !.subtotal = editingFee.feeAmount,
                                                 !.netAmount = editingFee.netAmount]
                 ELSE billingReceipts[k]]
    /\ CloseFeePopup
    /\ BillLoadQueueInto(billingQueue')
    /\ UNCHANGED <<doctorVars, medicineBillVars, flightVars, markPreparedSeen, pharmacyQueue, feeHistory,
                   receiptCounter, pharmPageVars>>

HandleSaveFee ==
    /\ showFeePopup
    /\ billSelectedItem # None
    /\ LET selectedItem == billSelectedItem[1] IN
       /\ appointments' =
             IF selectedItem.appointmentId # ""
             THEN AppointmentUpdateFee(appointments, selectedItem.appointmentId,
                                       editingFee.feeAmount, selectedItem.feeType)
             ELSE appointments
       /\ fees' = FeesUpdateRelated(fees, selectedItem.patientId, selectedItem.visitId,
                                    editingFee.feeAmount)
       /\ billingQueue' = Resync(appointments',
                                 BillingUpdateFee(billingQueue, selectedItem.id, editingFee))
    /\ CloseFeePopup
    /\ BillLoadQueueInto(billingQueue')
    /\ UNCHANGED <<doctorVars, medicineBillVars, flightVars, markPreparedSeen, pharmacyQueue, billingReceipts, feeHistory,
                   receiptCounter, pharmPageVars>>

\* a receipt that bills the gross fee
NewReceiptGross(item, receiptNumber) ==
    [receiptNumber   |-> receiptNumber,
     billingQueueId  |-> item.id,
     patientId       |-> item.patientId,
     visitId         |-> item.visitId,
     items           |-> <<[description |-> item.feeType, quantity |-> 1,
                            unitPrice |-> item.feeAmount, total |-> item.feeAmount]>>,
     subtotal        |-> item.feeAmount,
     discountPercent |-> item.discountPercent,
     discountAmount  |-> item.discountAmount,
     netAmount       |-> item.feeAmount,
     paymentMethod   |-> OrCash(item.paymentMethod),
     paymentStatus   |-> "paid",
     printedAt       |-> None,
     whatsappSentAt  |-> None]

\* the receipt handleGenerateReceipt builds from the listed item
NewReceipt(item, receiptNumber) ==
    [receiptNumber   |-> receiptNumber,
     billingQueueId  |-> item.id,
     patientId       |-> item.patientId,
     visitId         |-> item.visitId,
     items           |-> <<[description |-> item.feeType, quantity |-> 1,
                            unitPrice |-> item.feeAmount, total |-> item.feeAmount]>>,
     subtotal        |-> item.feeAmount,
     discountPercent |-> item.discountPercent,
     discountAmount  |-> item.discountAmount,
     netAmount       |-> item.netAmount,
     paymentMethod   |-> OrCash(item.paymentMethod),
     paymentStatus   |-> "paid",
     printedAt       |-> None,
     whatsappSentAt  |-> None]

\* billingQueueDb.generateReceiptNumber(): the next number of the sequence
GenerateReceiptNumber(counter) == counter + 1

\* the Generate Receipt button of a listed pending item
HandleGenerateReceipt(item) ==
    /\ ~showFeePopup
    /\ item \in billQueueItems
    /\ item.status = "pending"
    /\ LET receiptNumber == GenerateReceiptNumber(receiptCounter) IN
       /\ receiptCounter' = receiptNumber
       /\ billingReceipts' = Append(billingReceipts, NewReceipt(item, receiptNumber))
       /\ billingQueue' = Resync(appointments,
                                 BillingMarkPaid(billingQueue, item.id,
                                                 OrCash(item.paymentMethod), receiptNumber))
    /\ BillLoadQueueInto(billingQueue')
    /\ UNCHANGED <<doctorVars, medicineBillVars, flightVars, markPreparedSeen, pharmacyQueue, appointments, feeHistory, fees, pharmPageVars,
                   billSelectedItem, showFeePopup, editingFee>>

\* a fee-history record of the gross fee
NewFeeHistoryGross(item) ==
    [patientId     |-> item.patientId,
     visitId       |-> item.visitId,
     receiptId     |-> item.receiptNumber,
     feeType       |-> IF item.feeType = "New Patient" THEN "first-visit" ELSE "follow-up",
     amount        |-> item.feeAmount,
     paymentMethod |-> OrCash(item.paymentMethod),
     paymentStatus |-> "paid"]

\* the fee-history record handleComplete appends
NewFeeHistory(item) ==
    [patientId     |-> item.patientId,
     visitId       |-> item.visitId,
     receiptId     |-> item.receiptNumber,
     feeType       |-> IF item.feeType = "New Patient" THEN "first-visit" ELSE "follow-up",
     amount        |-> item.netAmount,
     paymentMethod |-> OrCash(item.paymentMethod),
     paymentStatus |-> "paid"]

\* the Complete button of a listed paid item
HandleComplete(item) ==
    /\ ~showFeePopup
    /\ item \in billQueueItems
    /\ item.status = "paid"
    /\ Len(feeHistory) < MaxFeeHistory
    /\ appointments' =
          IF item.appointmentId # ""
          THEN AppointmentUpdateStatus(appointments, item.appointmentId, "completed")
          ELSE appointments
    /\ feeHistory' = Append(feeHistory, NewFeeHistory(item))
    /\ billingQueue' = Resync(appointments', BillingMarkCompleted(billingQueue, item.id))
    /\ BillLoadQueueInto(billingQueue')
    /\ UNCHANGED <<doctorVars, medicineBillVars, flightVars, markPreparedSeen, pharmacyQueue, billingReceipts, fees, receiptCounter, pharmPageVars,
                   billSelectedItem, showFeePopup, editingFee>>

\* a reopen that sends the item back to pending
HandleReopenToPending(item) ==
    /\ ~showFeePopup
    /\ item \in billCompletedItems
    /\ item.status = "completed"
    /\ billingQueue' = Resync(appointments, BillingUpdateStatus(billingQueue, item.id, "pending"))
    /\ BillLoadQueueInto(billingQueue')
    /\ UNCHANGED <<doctorVars, medicineBillVars, flightVars, markPreparedSeen, pharmacyQueue, appointments, billingReceipts,
                   feeHistory, fees, receiptCounter, pharmPageVars, billSelectedItem,
                   showFeePopup, editingFee>>

\* a reopen that also withdraws the fee-history record of the completion
HandleReopenRollback(item) ==
    /\ ~showFeePopup
    /\ item \in billCompletedItems
    /\ item.status = "completed"
    /\ billingQueue' = Resync(appointments, BillingUpdateStatus(billingQueue, item.id, "paid"))
    /\ feeHistory' = SubSeq(feeHistory, 1, Len(feeHistory) - 1)
    /\ BillLoadQueueInto(billingQueue')
    /\ UNCHANGED <<doctorVars, medicineBillVars, flightVars, markPreparedSeen, pharmacyQueue, appointments, billingReceipts,
                   fees, receiptCounter, pharmPageVars, billSelectedItem,
                   showFeePopup, editingFee>>

\* the Reopen button of a listed completed item
HandleReopen(item) ==
    /\ ~showFeePopup
    /\ item \in billCompletedItems
    /\ item.status = "completed"
    /\ billingQueue' = Resync(appointments, BillingUpdateStatus(billingQueue, item.id, "paid"))
    /\ BillLoadQueueInto(billingQueue')
    /\ UNCHANGED <<doctorVars, medicineBillVars, flightVars, markPreparedSeen, pharmacyQueue, appointments, billingReceipts, feeHistory, fees,
                   receiptCounter, pharmPageVars, billSelectedItem, showFeePopup,
                   editingFee>>

\* ---------------------------------------------------------------------
\* Medicine bill (prescription popup in bill mode)
\* ---------------------------------------------------------------------
\* Amounts are kept in 1/10000 of the currency unit: with whole amounts
\* and whole percentages every product and quotient below is exact, as it
\* is in the page's floating-point arithmetic for these inputs.
MoneyScale == 10000

Money(units) == units * MoneyScale

\* the prescription record behind an id: each prescribes its own medicine
Prescription(rxId) == [id |-> rxId, medicine |-> "med-" \o rxId]

\* medicineBillDb.getByBillingQueueId(id): index of the first bill, 0 if none
MedicineBillIndex(bills, billingQueueId) ==
    IF \E i \in 1..Len(bills) : bills[i].billingQueueId = billingQueueId
    THEN CHOOSE i \in 1..Len(bills) :
            /\ bills[i].billingQueueId = billingQueueId
            /\ \A j \in 1..(i - 1) : bills[j].billingQueueId # billingQueueId
    ELSE 0

\* medicineBillDb.create(data): the new bill gets a fresh id
MedicineBillCreate(bills, data) ==
    Append(bills, [data EXCEPT !.id = Len(bills) + 1])

\* medicineBillDb.update(id, data): no-op when the id is unknown
MedicineBillUpdate(bills, id, data) ==
    [i \in 1..Len(bills) |-> IF bills[i].id = id THEN [data EXCEPT !.id = id]
                                                ELSE bills[i]]

\* medicineAmountMemoryDb.getByMedicine(medicine): the amount, 0 without a record
MemoryAmount(memory, medicine) ==
    IF medicine \in DOMAIN memory THEN memory[medicine] ELSE 0

\* billItems.forEach(item => item.amount > 0 && upsert(item.medicine, item.amount))
RECURSIVE MemoryUpsertAll(_, _)
MemoryUpsertAll(memory, items) ==
    IF items = << >> THEN memory
    ELSE LET item == Head(items)
             next == IF item.amount > 0
                     THEN [m \in DOMAIN memory \cup {item.medicine} |->
                              IF m = item.medicine THEN item.amount ELSE memory[m]]
                     ELSE memory
         IN MemoryUpsertAll(next, Tail(items))

\* billItems.reduce((sum, item) => sum + (item.amount || 0), 0)
RECURSIVE getBillSubtotal(_)
getBillSubtotal(items) ==
    IF items = << >> THEN 0
    ELSE Head(items).amount + getBillSubtotal(Tail(items))

getBillDiscountAmount(items, discount) ==
    (getBillSubtotal(items) * discount) \div 100

\* a tax taken on the undiscounted subtotal
getBillTaxAmountOnSubtotal(items, discount, tax) ==
    (getBillSubtotal(items) * tax) \div 100

getBillTaxAmount(items, discount, tax) ==
    ((getBillSubtotal(items) - getBillDiscountAmount(items, discount)) * tax) \div 100

getBillTotal(items, discount, tax) ==
    getBillSubtotal(items) - getBillDiscountAmount(items, discount)
        + getBillTaxAmount(items, discount, tax)

\* no other popup is in front of the lists
ListsOnScreen == ~showFeePopup /\ ~showPrescriptionPopup /\ ~showViewBillPopup

\* the rows handleViewPrescription builds when no bill was saved: one per
\* prescription of the item, with the amount last billed for the medicine.
\* The item's prescriptions are those loadQueue read for its visit.
NewBillRows(rxIds, memory) ==
    [i \in 1..Len(rxIds) |->
        [prescriptionId |-> rxIds[i],
         medicine       |-> Prescription(rxIds[i]).medicine,
         amount         |-> MemoryAmount(memory, Prescription(rxIds[i]).medicine)]]

\* the body of handleViewPrescription but for setIsBillMode
ViewPrescriptionInto(item) ==
    LET k == MedicineBillIndex(medicineBills, item.id) IN
    /\ viewingBillingItem' = Some(item)
    /\ IF k # 0
       THEN /\ savedMedicineBill' = Some(medicineBills[k].id)
            /\ billItems' = medicineBills[k].items
            /\ billDiscount' = medicineBills[k].discountPercent
            /\ billTax' = medicineBills[k].taxPercent
       ELSE /\ savedMedicineBill' = None
            /\ billItems' = NewBillRows(doctorPrescriptions[item.visitId],
                                        medicineAmountMemory)
            /\ billDiscount' = 0
            /\ billTax' = 0
    /\ showPrescriptionPopup' = TRUE

\* the View Prescription button of a list row
HandleViewPrescription(item) ==
    /\ ListsOnScreen
    /\ item \in billQueueItems \cup billCompletedItems
    /\ ViewPrescriptionInto(item)
    /\ isBillMode' = FALSE
    /\ UNCHANGED <<storeVars, doctorVars, medicineStoreVars, showViewBillPopup,
                   pharmPageVars, billPageVars, markPreparedSeen, flightVars>>

\* the Create Bill button
HandleCreateBill ==
    /\ showPrescriptionPopup /\ ~isBillMode
    /\ isBillMode' = TRUE
    /\ UNCHANGED <<storeVars, doctorVars, medicineStoreVars, showPrescriptionPopup,
                   viewingBillingItem, billItems, billDiscount, billTax,
                   savedMedicineBill, showViewBillPopup, pharmPageVars, billPageVars,
                   markPreparedSeen, flightVars>>

\* the Back to Prescription button
BackToPrescription ==
    /\ showPrescriptionPopup /\ isBillMode
    /\ isBillMode' = FALSE
    /\ UNCHANGED <<storeVars, doctorVars, medicineStoreVars, showPrescriptionPopup,
                   viewingBillingItem, billItems, billDiscount, billTax,
                   savedMedicineBill, showViewBillPopup, pharmPageVars, billPageVars,
                   markPreparedSeen, flightVars>>

\* the Close button of the prescription popup
ClosePrescriptionPopup ==
    /\ showPrescriptionPopup
    /\ showPrescriptionPopup' = FALSE
    /\ isBillMode' = FALSE
    /\ UNCHANGED <<storeVars, doctorVars, medicineStoreVars, viewingBillingItem,
                   billItems, billDiscount, billTax, savedMedicineBill,
                   showViewBillPopup, pharmPageVars, billPageVars, markPreparedSeen,
                   flightVars>>

\* the amount field of a bill row
HandleBillItemAmountChange(index, amount) ==
    /\ showPrescriptionPopup /\ isBillMode
    /\ index \in 1..Len(billItems)
    /\ billItems' = [billItems EXCEPT ![index].amount = amount]
    /\ UNCHANGED <<storeVars, doctorVars, medicineStoreVars, showPrescriptionPopup,
                   isBillMode, viewingBillingItem, billDiscount, billTax,
                   savedMedicineBill, showViewBillPopup, pharmPageVars, billPageVars,
                   markPreparedSeen, flightVars>>

\* the Discount (%) field
SetBillDiscount(percent) ==
    /\ showPrescriptionPopup /\ isBillMode
    /\ billDiscount' = percent
    /\ UNCHANGED <<storeVars, doctorVars, medicineStoreVars, showPrescriptionPopup,
                   isBillMode, viewingBillingItem, billItems, billTax,
                   savedMedicineBill, showViewBillPopup, pharmPageVars, billPageVars,
                   markPreparedSeen, flightVars>>

\* the Tax (%) field
SetBillTax(percent) ==
    /\ showPrescriptionPopup /\ isBillMode
    /\ billTax' = percent
    /\ UNCHANGED <<storeVars, doctorVars, medicineStoreVars, showPrescriptionPopup,
                   isBillMode, viewingBillingItem, billItems, billDiscount,
                   savedMedicineBill, showViewBillPopup, pharmPageVars, billPageVars,
                   markPreparedSeen, flightVars>>

\* billData of handleSaveBill
BillData ==
    [id              |-> 0,
     billingQueueId  |-> viewingBillingItem[1].id,
     patientId       |-> viewingBillingItem[1].patientId,
     visitId         |-> viewingBillingItem[1].visitId,
     items           |-> billItems,
     subtotal        |-> getBillSubtotal(billItems),
     discountPercent |-> billDiscount,
     discountAmount  |-> getBillDiscountAmount(billItems, billDiscount),
     taxPercent      |-> billTax,
     taxAmount       |-> getBillTaxAmount(billItems, billDiscount, billTax),
     grandTotal      |-> getBillTotal(billItems, billDiscount, billTax),
     status          |-> "saved"]

\* a save that never looks at savedMedicineBill
HandleSaveBillCreateAlways ==
    /\ showPrescriptionPopup /\ isBillMode
    /\ viewingBillingItem # None
    /\ medicineBills' = MedicineBillCreate(medicineBills, BillData)
    /\ savedMedicineBill' = Some(Len(medicineBills) + 1)
    /\ medicineAmountMemory' = MemoryUpsertAll(medicineAmountMemory, billItems)
    /\ billingQueue' = Resync(appointments, billingQueue)
    /\ BillLoadQueueInto(billingQueue')
    /\ UNCHANGED <<pharmacyQueue, appointments, billingReceipts, feeHistory, fees,
                   receiptCounter, doctorVars, showPrescriptionPopup, isBillMode,
                   viewingBillingItem, billItems, billDiscount, billTax,
                   showViewBillPopup, pharmPageVars, billSelectedItem, showFeePopup,
                   editingFee, markPreparedSeen, flightVars>>

\* the Save Bill / Update Bill button
HandleSaveBill ==
    /\ showPrescriptionPopup /\ isBillMode
    /\ viewingBillingItem # None
    /\ IF savedMedicineBill # None
       THEN /\ medicineBills' = MedicineBillUpdate(medicineBills, savedMedicineBill[1],
                                                    BillData)
            /\ UNCHANGED savedMedicineBill
       ELSE /\ medicineBills' = MedicineBillCreate(medicineBills, BillData)
            /\ savedMedicineBill' = Some(Len(medicineBills) + 1)
    /\ medicineAmountMemory' = MemoryUpsertAll(medicineAmountMemory, billItems)
    /\ billingQueue' = Resync(appointments, billingQueue)
    /\ BillLoadQueueInto(billingQueue')
    /\ UNCHANGED <<pharmacyQueue, appointments, billingReceipts, feeHistory, fees,
                   receiptCounter, doctorVars, showPrescriptionPopup, isBillMode,
                   viewingBillingItem, billItems, billDiscount, billTax,
                   showViewBillPopup, pharmPageVars, billSelectedItem, showFeePopup,
                   editingFee, markPreparedSeen, flightVars>>

\* the View Bill button of a list row: opens only when a bill was saved
HandleViewSavedBill(item) ==
    /\ ListsOnScreen
    /\ item \in billQueueItems \cup billCompletedItems
    /\ MedicineBillIndex(medicineBills, item.id) # 0
    /\ viewingBillingItem' = Some(item)
    /\ showViewBillPopup' = TRUE
    /\ UNCHANGED <<storeVars, doctorVars, medicineStoreVars, showPrescriptionPopup,
                   isBillMode, billItems, billDiscount, billTax, savedMedicineBill,
                   pharmPageVars, billPageVars, markPreparedSeen, flightVars>>

\* the Close button of the saved-bill popup
CloseViewBillPopup ==
    /\ showViewBillPopup
    /\ showViewBillPopup' = FALSE
    /\ UNCHANGED <<storeVars, doctorVars, medicineStoreVars, showPrescriptionPopup,
                   isBillMode, viewingBillingItem, billItems, billDiscount, billTax,
                   savedMedicineBill, pharmPageVars, billPageVars, markPreparedSeen,
                   flightVars>>

\* the Edit Bill button of the saved-bill popup
EditSavedBill ==
    /\ showViewBillPopup
    /\ viewingBillingItem # None
    /\ showViewBillPopup' = FALSE
    /\ ViewPrescriptionInto(viewingBillingItem[1])
    /\ isBillMode' = TRUE
    /\ UNCHANGED <<storeVars, doctorVars, medicineStoreVars, pharmPageVars,
                   billPageVars, markPreparedSeen, flightVars>>

\* =====================================================================
\* The system: both pages open on one store
\* =====================================================================
\* the patient's appointment, as booked at the front desk
ApptChoices ==
    {[id |-> "a1", patientId |-> "p1", day |-> d, status |-> st,
      feeAmount |-> f, feeType |-> IF f = None THEN "" ELSE "New Patient",
      feeStatus |-> ""]
        : d \in {"today", "other"}, st \in {"completed", "scheduled"},
          f \in {None, Some(400)}}

PharmItem(id, visitId, appointmentId, priority, createdAt, status) ==
    [id |-> id, visitId |-> visitId, patientId |-> DoctorVisit(visitId).patientId,
     appointmentId |-> appointmentId, prescriptionIds |-> <<"rx-" \o visitId>>,
     priority |-> priority, status |-> status, createdAt |-> createdAt,
     preparedBy |-> "", stopReason |-> ""]

\* the legacy fee record the doctor panel may have written for a visit
LegacyFee(visitId) ==
    [id |-> "f1", patientId |-> DoctorVisit(visitId).patientId, visitId |-> visitId,
     amount |-> 300]

\* the pharmacy page after the loadQueue of its mount: nothing was seen before
PharmFirstLoad ==
    LET loaded == PharmLoaded(pharmacyQueue, doctorPrescriptions,
                              [q \in AllPharmIds |-> None]) IN
    /\ pharmQueueItems = PharmSnapshot(pharmacyQueue, {"pending", "preparing"})
    /\ pharmPreparedItems = PharmSnapshot(pharmacyQueue, {"prepared"})
    /\ pharmQueueRows = loaded.active
    /\ pharmPreparedRows = loaded.prepared
    /\ previousPrescriptionIds = loaded.marks
    /\ notification = NotificationAfter(None, loaded.active)

\* the bill popups as the billing page opens: useState's initial values
BillEditorClosed ==
    /\ showPrescriptionPopup = FALSE
    /\ isBillMode = FALSE
    /\ viewingBillingItem = None
    /\ billItems = << >>
    /\ billDiscount = 0
    /\ billTax = 0
    /\ savedMedicineBill = None
    /\ showViewBillPopup = FALSE

\* the rest of the store and both pages, once the pharmacy queue is given:
\* nothing is billed yet, and both pages have just been opened
InitRestWith(choices, rx) ==
    /\ billingQueue = << >>
    /\ \E a1 \in choices : appointments = [a \in {"a1"} |-> a1]
    /\ billingReceipts = << >>
    /\ feeHistory = << >>
    /\ fees = IF pharmacyQueue["q1"].visitId = "v2" THEN <<LegacyFee("v2")>> ELSE << >>
    /\ receiptCounter = 0
    /\ markPreparedSeen = [q \in AllPharmIds |-> "never"]
    /\ markPreparedFlight = None
    /\ sweepFlight = None
    /\ doctorPrescriptions = rx
    /\ medicineBills = << >>
    /\ medicineAmountMemory = [m \in {} |-> 0]
    /\ BillEditorClosed
    /\ PharmFirstLoad
    /\ pharmSelectedItem = None
    /\ billQueueItems = {}
    /\ billCompletedItems = {}
    /\ billSelectedItem = None
    /\ showFeePopup = FALSE
    /\ editingFee = InitialEditingFee

\* every visit has one prescription
InitRest(choices) == InitRestWith(choices, [v \in AllVisitIds |-> <<"rx-" \o v>>])

\* One visit of one patient has been sent to the pharmacy.  Its queue item
\* is waiting, or was prepared before the billing page was opened; it may
\* or may not carry the id of the patient's appointment.  The follow-up
\* visit v2 has a legacy fee record, the first visit v1 has none.
InitOf(choices) ==
    /\ \E v \in VisitIds, link \in {"a1", ""}, st \in {"pending", "prepared"} :
          pharmacyQueue = [q \in InitPharmIds |-> PharmItem(q, v, link, FALSE, 1, st)]
    /\ InitRest(choices)

Init == InitOf(ApptChoices)

BillItems == billQueueItems \cup billCompletedItems

Next ==
    \/ PharmLoadQueue
    \/ \E q \in PharmIdSet : PharmSelectItem(q)
    \/ PharmSwitchTab
    \/ \E q \in PharmIdSet : HandleStartPreparing(q)
    \/ \E q \in PharmIdSet : HandleMarkPrepared(q)
    \/ \E q \in PharmIdSet : HandlePharmReopen(q)
    \/ \E q \in PharmIdSet : HandleStop(q)
    \/ CheckPharmacyQueue
    \/ BillLoadQueue
    \/ \E item \in BillItems : HandleEditFee(item)
    \/ \E v \in FeeInputs : HandleFeeAmountChange(v)
    \/ \E v \in DiscountInputs : HandleDiscountChange(v)
    \/ CancelFeePopup
    \/ HandleSaveFee
    \/ \E item \in BillItems : HandleGenerateReceipt(item)
    \/ \E item \in BillItems : HandleComplete(item)
    \/ \E item \in BillItems : HandleReopen(item)

Spec == Init /\ [][Next]_vars

\* =====================================================================
\* Properties
\* =====================================================================
\* billing queue items of a visit
BillingOfVisit(bq, v) == {i \in 1..Len(bq) : bq[i].visitId = v}

\* C1: in every reachable state each visit has at most one billing queue
\* item, whatever status that item has reached.
C1_AtMostOneBillingPerVisit ==
    \A v \in VisitIds : Cardinality(BillingOfVisit(billingQueue, v)) <= 1

\* the visit's billing item is completed and its pharmacy item is (again)
\* prepared, so the sweep and markPrepared have both looked for it since
C1_Witness ==
    /\ \E i \in 1..Len(billingQueue) : billingQueue[i].status = "completed"
    /\ pharmacyQueue["q1"].status = "prepared"
    /\ markPreparedSeen["q1"] # "never"

\* C2: a markPrepared of an item that was marked prepared before creates
\* no billing item: the billing queue is unchanged and the visit has
\* exactly one item.
C2_RePrepareCreatesNothing ==
    [][\A q \in DOMAIN pharmacyQueue :
          (HandleMarkPrepared(q) /\ markPreparedSeen[q] # "never")
             => /\ billingQueue' = billingQueue
                /\ Cardinality(BillingOfVisit(billingQueue', pharmacyQueue[q].visitId)) = 1]_vars

\* marked prepared twice, after the first billing item was paid
C2_Witness ==
    /\ markPreparedSeen["q1"] = "again"
    /\ pharmacyQueue["q1"].status = "prepared"
    /\ \E i \in 1..Len(billingQueue) : billingQueue[i].status \in {"paid", "completed"}

\* a second sweep right after a sweep would change neither queue
SweepChangesNothing ==
    LET r == SweepResult(billingQueue, pharmacyQueue, appointments) IN
    /\ Resync(appointments, r.bq) = billingQueue
    /\ r.pq = pharmacyQueue

\* C3: the state a sweep leaves is a fixed point of the sweep, so a second
\* sweep with no change in between adds no billing item.
C3_SweepIdempotent == [][CheckPharmacyQueue => SweepChangesNothing']_vars

\* a sweep has admitted the item: only the sweep marks an item billed
C3_Witness ==
    /\ pharmacyQueue["q1"].status = "billed"
    /\ Len(billingQueue) = 1

\* C5: right after markPrepared of an existing item the item is prepared
\* and its visit has exactly one billing item, created by the call exactly
\* when there was none.
C5_MarkPreparedAdmits ==
    [][\A q \in DOMAIN pharmacyQueue :
          HandleMarkPrepared(q)
             => LET v == pharmacyQueue[q].visitId IN
                /\ pharmacyQueue'[q].status = "prepared"
                /\ Cardinality(BillingOfVisit(billingQueue', v)) = 1
                /\ IF BillingOfVisit(billingQueue, v) = {}
                   THEN Len(billingQueue') = Len(billingQueue) + 1
                   ELSE billingQueue' = billingQueue]_vars

\* markPrepared has run on an item that had no billing item and created it
C5_Witness ==
    /\ markPreparedSeen["q1"] = "once"
    /\ pharmacyQueue["q1"].status = "prepared"
    /\ Len(billingQueue) = 1
    /\ billQueueItems = {}

\* status changes the billing status machine allows
BillingTransitions ==
    {<<"pending", "paid">>, <<"paid", "completed">>, <<"completed", "paid">>}

\* C7: a billing item's status only changes pending -> paid,
\* paid -> completed or completed -> paid, and no item disappears.
C7_BillingStatusMachine ==
    [][/\ Len(billingQueue') >= Len(billingQueue)
       /\ \A i \in 1..Len(billingQueue) :
             /\ billingQueue'[i].id = billingQueue[i].id
             /\ \/ billingQueue'[i].status = billingQueue[i].status
                \/ <<billingQueue[i].status, billingQueue'[i].status>> \in BillingTransitions]_vars

\* an item that was completed is paid again (reopened) and carries an edited fee
C7_Witness ==
    \E i \in 1..Len(billingQueue) :
        /\ billingQueue[i].status = "paid"
        /\ billingQueue[i].discountPercent # None
        /\ \E h \in 1..Len(feeHistory) : feeHistory[h].visitId = billingQueue[i].visitId

\* C8: generate receipt appends one receipt, paid, that carries the item's
\* stored amounts and payment method (cash by default), and leaves the item
\* paid with that method and receipt number and its netAmount as it was.
C8_GenerateReceipt ==
    [][\A item \in BillItems :
          HandleGenerateReceipt(item)
             => LET i == BillingIndex(billingQueue, item.id)
                    b == billingQueue[i]
                    r == billingReceipts'[Len(billingReceipts')]
                IN /\ b.status = "pending"
                   /\ Len(billingReceipts') = Len(billingReceipts) + 1
                   /\ SubSeq(billingReceipts', 1, Len(billingReceipts)) = billingReceipts
                   /\ r.billingQueueId = b.id
                   /\ r.paymentStatus = "paid"
                   /\ r.subtotal = b.feeAmount
                   /\ r.discountPercent = b.discountPercent
                   /\ r.discountAmount = b.discountAmount
                   /\ r.netAmount = b.netAmount
                   /\ r.paymentMethod = OrCash(b.paymentMethod)
                   /\ billingQueue'[i].status = "paid"
                   /\ billingQueue'[i].paymentMethod = r.paymentMethod
                   /\ billingQueue'[i].receiptNumber = Some(r.receiptNumber)
                   /\ billingQueue'[i].netAmount = b.netAmount]_vars

\* a receipt of a discounted item exists
C8_Witness ==
    \E k \in 1..Len(billingReceipts) :
        /\ OrZero(billingReceipts[k].discountAmount) > 0
        /\ billingReceipts[k].netAmount < billingReceipts[k].subtotal
        /\ \E i \in 1..Len(billingQueue) :
              /\ billingQueue[i].id = billingReceipts[k].billingQueueId
              /\ billingQueue[i].status = "paid"

\* C9: Complete sets the item completed, the linked appointment completed,
\* and appends one fee-history record with the item's patient, visit, net
\* amount and payment method, paid, its fee type bucketed.
C9_Complete ==
    [][\A item \in BillItems :
          HandleComplete(item)
             => LET i == BillingIndex(billingQueue, item.id)
                    b == billingQueue[i]
                    h == feeHistory'[Len(feeHistory')]
                IN /\ b.status = "paid"
                   /\ billingQueue'[i].status = "completed"
                   /\ (b.appointmentId \in DOMAIN appointments
                         => appointments'[b.appointmentId].status = "completed")
                   /\ Len(feeHistory') = Len(feeHistory) + 1
                   /\ SubSeq(feeHistory', 1, Len(feeHistory)) = feeHistory
                   /\ h.patientId = b.patientId
                   /\ h.visitId = b.visitId
                   /\ h.amount = b.netAmount
                   /\ h.paymentMethod = OrCash(b.paymentMethod)
                   /\ h.paymentStatus = "paid"
                   /\ h.feeType = IF b.feeType = "New Patient" THEN "first-visit"
                                                               ELSE "follow-up"]_vars

\* a completed new-patient item with a discount has its fee-history record
C9_Witness ==
    \E i \in 1..Len(billingQueue), h \in 1..Len(feeHistory) :
        /\ billingQueue[i].status = "completed"
        /\ billingQueue[i].feeType = "New Patient"
        /\ billingQueue[i].netAmount < billingQueue[i].feeAmount
        /\ feeHistory[h].visitId = billingQueue[i].visitId
        /\ feeHistory[h].feeType = "first-visit"

\* C10: billing reopen of a completed item changes that item's status to
\* paid and nothing else of it; fee history, receipts and appointments
\* stay as they were, and no other item changes status.
C10_ReopenFrame ==
    [][\A item \in BillItems :
          HandleReopen(item)
             => LET i == BillingIndex(billingQueue, item.id) IN
                /\ billingQueue[i].status = "completed"
                /\ billingQueue'[i] = [billingQueue[i] EXCEPT !.status = "paid"]
                /\ Len(billingQueue') = Len(billingQueue)
                /\ \A j \in 1..Len(billingQueue) :
                      j # i => billingQueue'[j].status = billingQueue[j].status
                /\ feeHistory' = feeHistory
                /\ billingReceipts' = billingReceipts
                /\ appointments' = appointments
                /\ pharmacyQueue' = pharmacyQueue]_vars

\* a reopened item: paid, with the fee-history record of its completion
C10_Witness ==
    \E i \in 1..Len(billingQueue) :
        /\ billingQueue[i].status = "paid"
        /\ billQueueItems = {billingQueue[i]}
        /\ Cardinality({h \in 1..Len(feeHistory) :
                           feeHistory[h].visitId = billingQueue[i].visitId}) = 1

\* =====================================================================
\* Two writers: the pharmacy page and the billing page open in separate
\* tabs on the shared store.  Each store call is atomic, but the other
\* tab may run between the find by visitId and the create that follows it.
\* =====================================================================
\* handleMarkPrepared up to and including its existence check
MarkPreparedCheck(itemId) ==
    /\ markPreparedFlight = None
    /\ InList(pharmQueueItems, itemId, {"preparing"}) \/ IsSelected(itemId, {"preparing"})
    /\ itemId \in DOMAIN pharmacyQueue
    /\ pharmacyQueue' = PharmacyMarkPrepared(pharmacyQueue, itemId, "pharmacy")
    /\ markPreparedSeen' =
          [markPreparedSeen EXCEPT ![itemId] = IF @ = "never" THEN "once" ELSE "again"]
    /\ LET pharmacyItem == pharmacyQueue[itemId]
           relevantAppointment ==
               FindSameDayISO(appointments,
                              AppointmentsByPatient(appointments, pharmacyItem.patientId),
                              {"completed", "in-progress"})
       IN /\ appointments' =
                IF relevantAppointment # ""
                THEN AppointmentUpdateStatus(appointments, relevantAppointment,
                                             "medicines-prepared")
                ELSE appointments
          /\ markPreparedFlight' =
                Some([itemId |-> itemId,
                      create |-> ~ExistingBilling(billingQueue, pharmacyItem.visitId),
                      item   |-> NewBillingItem(pharmacyItem,
                                     MarkPreparedFee(appointments, relevantAppointment,
                                                     DoctorVisit(pharmacyItem.visitId)))])
    /\ UNCHANGED <<doctorVars, medicineBillVars, billingQueue, billingReceipts, feeHistory, fees, receiptCounter,
                   pharmPageVars, billPageVars, sweepFlight>>

\* the rest of handleMarkPrepared: the create, if the check found nothing,
\* and the reload
MarkPreparedCreate ==
    /\ markPreparedFlight # None
    /\ LET f == markPreparedFlight[1] IN
       /\ billingQueue' = IF f.create THEN BillingCreate(billingQueue, f.item)
                                      ELSE billingQueue
       /\ pharmSelectedItem' =
             IF pharmSelectedItem # None /\ pharmSelectedItem[1].id = f.itemId
             THEN None ELSE pharmSelectedItem
    /\ PharmLoadQueueInto(pharmacyQueue)
    /\ markPreparedFlight' = None
    /\ UNCHANGED <<doctorVars, medicineBillVars, pharmacyQueue, appointments, billingReceipts, feeHistory, fees,
                   receiptCounter, billPageVars, markPreparedSeen, sweepFlight>>

\* checkPharmacyQueue reads the prepared items
SweepStart ==
    /\ sweepFlight = None
    /\ sweepFlight' = Some([todo |-> PreparedPharmacyItems(pharmacyQueue, PharmIds),
                            creating |-> FALSE])
    /\ UNCHANGED <<doctorVars, medicineBillVars, storeVars, pharmPageVars, billPageVars, markPreparedSeen,
                   markPreparedFlight>>

\* the existence check for the next prepared item
SweepCheck ==
    /\ sweepFlight # None
    /\ ~sweepFlight[1].creating
    /\ sweepFlight[1].todo # << >>
    /\ sweepFlight' =
          IF ExistingBilling(billingQueue, Head(sweepFlight[1].todo).visitId)
          THEN Some([sweepFlight[1] EXCEPT !.todo = Tail(@)])
          ELSE Some([sweepFlight[1] EXCEPT !.creating = TRUE])
    /\ UNCHANGED <<doctorVars, medicineBillVars, storeVars, pharmPageVars, billPageVars, markPreparedSeen,
                   markPreparedFlight>>

\* the create and the billed mark for an item the check found nothing for
SweepCreate ==
    /\ sweepFlight # None
    /\ sweepFlight[1].creating
    /\ LET pharmacyItem == Head(sweepFlight[1].todo) IN
       /\ billingQueue' =
             BillingCreate(billingQueue,
                 NewBillingItem(pharmacyItem,
                     SweepFee(appointments, pharmacyItem, DoctorVisit(pharmacyItem.visitId))))
       /\ pharmacyQueue' = PharmacyUpdateStatus(pharmacyQueue, pharmacyItem.id, "billed")
    /\ sweepFlight' = Some([todo |-> Tail(sweepFlight[1].todo), creating |-> FALSE])
    /\ UNCHANGED <<doctorVars, medicineBillVars, appointments, billingReceipts, feeHistory, fees, receiptCounter,
                   pharmPageVars, billPageVars, markPreparedSeen, markPreparedFlight>>

\* the loadQueue that ends the sweep
SweepEnd ==
    /\ sweepFlight # None
    /\ ~sweepFlight[1].creating
    /\ sweepFlight[1].todo = << >>
    /\ billingQueue' = Resync(appointments, billingQueue)
    /\ BillLoadQueueInto(billingQueue')
    /\ sweepFlight' = None
    /\ UNCHANGED <<doctorVars, medicineBillVars, pharmacyQueue, appointments, billingReceipts, feeHistory, fees,
                   receiptCounter, pharmPageVars, billSelectedItem, showFeePopup,
                   editingFee, markPreparedSeen, markPreparedFlight>>

\* the pharmacy page runs one handler at a time, and so does the billing page
PharmIdle == markPreparedFlight = None

BillIdle == sweepFlight = None

\* one visit with a same-day completed appointment: the fee the item gets
\* plays no part in the race
InitConc ==
    /\ Init
    /\ pharmacyQueue["q1"].visitId = "v1"
    /\ appointments["a1"].day = "today"
    /\ appointments["a1"].status = "completed"

\* the fee popup is left out: it creates no billing item and marks no
\* pharmacy item
NextConc ==
    \/ PharmIdle /\ PharmLoadQueue
    \/ \E q \in PharmIdSet : PharmIdle /\ PharmSelectItem(q)
    \/ PharmIdle /\ PharmSwitchTab
    \/ \E q \in PharmIdSet : PharmIdle /\ HandleStartPreparing(q)
    \/ \E q \in PharmIdSet : MarkPreparedCheck(q)
    \/ MarkPreparedCreate
    \/ \E q \in PharmIdSet : PharmIdle /\ HandlePharmReopen(q)
    \/ \E q \in PharmIdSet : PharmIdle /\ HandleStop(q)
    \/ SweepStart
    \/ SweepCheck
    \/ SweepCreate
    \/ SweepEnd
    \/ BillIdle /\ BillLoadQueue
    \/ \E item \in BillItems : BillIdle /\ HandleGenerateReceipt(item)
    \/ \E item \in BillItems : BillIdle /\ HandleComplete(item)
    \/ \E item \in BillItems : BillIdle /\ HandleReopen(item)

SpecConc == InitConc /\ [][NextConc]_vars

\* C4: also when markPrepared and the sweep interleave between their
\* existence check and their create, no visit has two billing queue items.
C4_NoDuplicateUnderInterleaving ==
    \A i, j \in 1..Len(billingQueue) :
        billingQueue[i].visitId = billingQueue[j].visitId => i = j

\* ---------------------------------------------------------------------
\* The periodic sweep under fairness: the billing page's 3-second interval
\* keeps firing for as long as the page is open.
\* ---------------------------------------------------------------------
SpecLive == Init /\ [][Next]_vars /\ WF_vars(CheckPharmacyQueue)

PreparedUnbilled(q) ==
    /\ q \in DOMAIN pharmacyQueue
    /\ pharmacyQueue[q].status = "prepared"
    /\ ~ExistingBilling(billingQueue, pharmacyQueue[q].visitId)

VisitBilled(q) ==
    /\ q \in DOMAIN pharmacyQueue
    /\ ExistingBilling(billingQueue, pharmacyQueue[q].visitId)

NotPrepared(q) ==
    /\ q \in DOMAIN pharmacyQueue
    /\ pharmacyQueue[q].status # "prepared"

\* C6 as stated: a prepared item whose visit has no billing item
\* eventually has one.
C6_PreparedEventuallyBilled ==
    \A q \in InitPharmIds : PreparedUnbilled(q) ~> VisitBilled(q)

\* C6: a prepared item whose visit has no billing item eventually has one,
\* unless the pharmacy takes it out of status prepared first.
C6_PreparedBilledOrWithdrawn ==
    \A q \in InitPharmIds : PreparedUnbilled(q) ~> (VisitBilled(q) \/ NotPrepared(q))

\* the sweep admitted an item that markPrepared never handled
C6_Witness ==
    /\ pharmacyQueue["q1"].status = "billed"
    /\ markPreparedSeen["q1"] = "never"
    /\ ExistingBilling(billingQueue, pharmacyQueue["q1"].visitId)

\* ---------------------------------------------------------------------
\* Audit trail
\* ---------------------------------------------------------------------
\* C11: fee history only grows: every step keeps the records it had, in
\* place and unmodified.
C11_FeeHistoryAppendOnly ==
    [][/\ Len(feeHistory') >= Len(feeHistory)
       /\ SubSeq(feeHistory', 1, Len(feeHistory)) = feeHistory]_vars

\* completed, reopened, fee edited, completed again: two records of the
\* visit with different amounts
C11_Witness ==
    /\ Len(feeHistory) = 2
    /\ feeHistory[1].visitId = feeHistory[2].visitId
    /\ feeHistory[1].amount # feeHistory[2].amount

\* ---------------------------------------------------------------------
\* Receipts and their annotations
\* ---------------------------------------------------------------------
\* billingReceiptDb.markPrinted(id)
ReceiptMarkPrinted(rs, k) == [rs EXCEPT ![k].printedAt = Some("now")]

\* billingReceiptDb.markWhatsappSent(id)
ReceiptMarkWhatsappSent(rs, k) == [rs EXCEPT ![k].whatsappSentAt = Some("now")]

\* currentReceipt: the receipt handleGenerateReceipt created last on this
\* page (setCurrentReceipt is called nowhere else, and never with null)
CurrentReceipt == IF billingReceipts = << >> THEN None ELSE Some(Len(billingReceipts))

\* the Print and Download PDF buttons
HandlePrintReceipt ==
    /\ CurrentReceipt # None
    /\ billingReceipts' = ReceiptMarkPrinted(billingReceipts, CurrentReceipt[1])
    /\ UNCHANGED <<doctorVars, medicineBillVars, pharmacyQueue, billingQueue, appointments, feeHistory, fees,
                   receiptCounter, pharmPageVars, billPageVars, markPreparedSeen,
                   flightVars>>

\* the WhatsApp button
HandleWhatsAppReceipt ==
    /\ CurrentReceipt # None
    /\ billingReceipts' = ReceiptMarkWhatsappSent(billingReceipts, CurrentReceipt[1])
    /\ UNCHANGED <<doctorVars, medicineBillVars, pharmacyQueue, billingQueue, appointments, feeHistory, fees,
                   receiptCounter, pharmPageVars, billPageVars, markPreparedSeen,
                   flightVars>>

\* one first visit with a same-day completed appointment
InitReceipt ==
    /\ Init
    /\ pharmacyQueue["q1"].visitId = "v1"
    /\ appointments["a1"].day = "today"
    /\ appointments["a1"].status = "completed"

NextReceipt ==
    \/ Next
    \/ HandlePrintReceipt
    \/ HandleWhatsAppReceipt

SpecReceipt == InitReceipt /\ [][NextReceipt]_vars

\* the fields of a receipt that state what was charged
ReceiptAmounts(r) ==
    [receiptNumber |-> r.receiptNumber, billingQueueId |-> r.billingQueueId,
     items |-> r.items, subtotal |-> r.subtotal,
     discountPercent |-> r.discountPercent, discountAmount |-> r.discountAmount,
     netAmount |-> r.netAmount, paymentMethod |-> r.paymentMethod,
     paymentStatus |-> r.paymentStatus]

\* C12: only generate receipt adds a receipt, no step removes one, and no
\* step changes an amount field of a receipt that exists; an annotation,
\* once set, stays.
C12_ReceiptsImmutable ==
    [][/\ Len(billingReceipts') >= Len(billingReceipts)
       /\ (Len(billingReceipts') > Len(billingReceipts)
             => \E item \in BillItems : HandleGenerateReceipt(item))
       /\ \A k \in 1..Len(billingReceipts) :
             /\ ReceiptAmounts(billingReceipts'[k]) = ReceiptAmounts(billingReceipts[k])
             /\ billingReceipts[k].printedAt # None
                   => billingReceipts'[k].printedAt = billingReceipts[k].printedAt
             /\ billingReceipts[k].whatsappSentAt # None
                   => billingReceipts'[k].whatsappSentAt = billingReceipts[k].whatsappSentAt]_vars

\* a printed receipt whose item was fee-edited while paid: the item's
\* amounts have moved away from the receipt's
C12_Witness ==
    \E k \in 1..Len(billingReceipts), i \in 1..Len(billingQueue) :
        /\ billingQueue[i].id = billingReceipts[k].billingQueueId
        /\ billingQueue[i].status = "paid"
        /\ billingQueue[i].netAmount # billingReceipts[k].netAmount
        /\ billingReceipts[k].printedAt # None

\* ---------------------------------------------------------------------
\* Fee editing
\* ---------------------------------------------------------------------
\* C13: after a save of the fee popup the edited item is stored with the
\* popup's feeAmount and discountPercent, discountAmount = feeAmount *
\* discountPercent / 100 and netAmount = feeAmount - discountAmount.
C13_SaveFeeStoresComputedAmounts ==
    [][(HandleSaveFee /\ billSelectedItem # None)
          => LET i == BillingIndex(billingQueue, billSelectedItem[1].id)
                 d == (editingFee.feeAmount * editingFee.discountPercent) \div 100
             IN /\ billingQueue'[i].feeAmount = editingFee.feeAmount
                /\ OrZero(billingQueue'[i].discountPercent) = editingFee.discountPercent
                /\ OrZero(billingQueue'[i].discountAmount) = d
                /\ billingQueue'[i].netAmount = editingFee.feeAmount - d]_vars

\* ---------------------------------------------------------------------
\* Fee resolution at admission
\* ---------------------------------------------------------------------
\* billing items the step creates
Created == {i \in 1..Len(billingQueue') : i > Len(billingQueue)}

\* C14: a billing item created for a pharmacy item whose linked appointment
\* has a feeAmount carries that appointment's feeAmount and feeType, on
\* both admission paths.
C14_LinkedAppointmentFeeFirst ==
    [][\A i \in Created :
          LET b == billingQueue'[i] IN
          (b.appointmentId \in DOMAIN appointments
              /\ appointments[b.appointmentId].feeAmount # None)
             => /\ b.feeAmount = appointments[b.appointmentId].feeAmount[1]
                /\ b.feeType = appointments[b.appointmentId].feeType]_vars

\* the linked appointment of a billing item has a feeAmount
LinkedHasFee(b) ==
    /\ b.appointmentId \in DOMAIN appointments
    /\ appointments[b.appointmentId].feeAmount # None

\* the patient's same-day appointments that carry a feeAmount
SameDayWithFee(patientId, statuses) ==
    {a \in ApptIdSet : /\ appointments[a].patientId = patientId
                       /\ appointments[a].day = "today"
                       /\ appointments[a].status \in statuses
                       /\ appointments[a].feeAmount # None}

\* C15: a billing item created when the linked appointment is absent or has
\* no feeAmount takes the fee of a same-day appointment that has one, and
\* with no such appointment a first visit is admitted with 500 'New Patient'.
C15_FeeFallsThrough ==
    [][\A i \in Created :
          LET b == billingQueue'[i] IN
          ~LinkedHasFee(b)
             => /\ SameDayWithFee(b.patientId, {"completed", "in-progress"}) # {}
                   => \E a \in SameDayWithFee(b.patientId, {"completed", "in-progress"}) :
                         b.feeAmount = appointments[a].feeAmount[1]
                /\ (SameDayWithFee(b.patientId, {"completed", "in-progress", "scheduled"}) = {}
                      /\ DoctorVisit(b.visitId).visitNumber = 1)
                   => b.feeAmount = 500 /\ b.feeType = "New Patient"]_vars

\* ---------------------------------------------------------------------
\* Admission alone, with appointments on which the two same-day tests may
\* disagree
\* ---------------------------------------------------------------------
ApptChoicesAdmit ==
    {[id |-> "a1", patientId |-> "p1", day |-> d, status |-> st,
      feeAmount |-> f, feeType |-> IF f = None THEN "" ELSE "New Patient",
      feeStatus |-> ""]
        : d \in {"today", "other", "utc-only", "local-only"},
          st \in {"completed", "scheduled"},
          f \in {None, Some(400)}}

InitAdmit == InitOf(ApptChoicesAdmit)

NextAdmit ==
    \/ PharmLoadQueue
    \/ \E q \in PharmIdSet : PharmSelectItem(q)
    \/ \E q \in PharmIdSet : HandleStartPreparing(q)
    \/ \E q \in PharmIdSet : HandleMarkPrepared(q)
    \/ \E q \in PharmIdSet : HandlePharmReopen(q)
    \/ CheckPharmacyQueue
    \/ BillLoadQueue

SpecAdmit == InitAdmit /\ [][NextAdmit]_vars

\* no appointment of the patient passes either page's same-day test
NoSameDayAppointment(patientId) ==
    \A a \in ApptIdSet :
        appointments[a].patientId = patientId
           => ~SameDayISO(appointments[a]) /\ ~SameDayLocal(appointments[a])

\* C16: a billing item created for a pharmacy item without appointmentId
\* whose patient has no same-day appointment gets 500 'New Patient' on a
\* first visit and 300 'Follow Up' on a second, on both admission paths.
C16_VisitNumberFallback ==
    [][\A i \in Created :
          LET b == billingQueue'[i] IN
          (b.appointmentId = "" /\ NoSameDayAppointment(b.patientId))
             => /\ DoctorVisit(b.visitId).visitNumber = 1
                   => b.feeAmount = 500 /\ b.feeType = "New Patient"
                /\ DoctorVisit(b.visitId).visitNumber = 2
                   => b.feeAmount = 300 /\ b.feeType = "Follow Up"]_vars

\* the sweep admitted a second visit that has no appointment link and no
\* same-day appointment
C16_Witness ==
    /\ pharmacyQueue["q1"].status = "billed"
    /\ pharmacyQueue["q1"].appointmentId = ""
    /\ pharmacyQueue["q1"].visitId = "v2"
    /\ NoSameDayAppointment("p1")
    /\ Len(billingQueue) = 1
    /\ billingQueue[1].feeType = "Follow Up"

\* ---------------------------------------------------------------------
\* Fee resync on load, with appointments that carry a fee status
\* ---------------------------------------------------------------------
ApptChoicesResync ==
    {[id |-> "a1", patientId |-> "p1", day |-> d, status |-> st,
      feeAmount |-> f[1], feeType |-> IF f[1] = None THEN "" ELSE "New Patient",
      feeStatus |-> f[2]]
        : d \in {"today", "other"}, st \in {"completed", "scheduled"},
          f \in {<<None, "">>, <<Some(400), "">>, <<Some(400), "paid">>}}

InitResync == InitOf(ApptChoicesResync)

NextResync ==
    \/ PharmLoadQueue
    \/ \E q \in PharmIdSet : HandleStartPreparing(q)
    \/ \E q \in PharmIdSet : HandleMarkPrepared(q)
    \/ CheckPharmacyQueue
    \/ BillLoadQueue
    \/ \E item \in BillItems : HandleEditFee(item)
    \/ \E v \in FeeInputs : HandleFeeAmountChange(v)
    \/ \E v \in DiscountInputs : HandleDiscountChange(v)
    \/ CancelFeePopup
    \/ HandleSaveFee

SpecResync == InitResync /\ [][NextResync]_vars

\* the appointment a pending item's fee is resolved from, in the store ap:
\* the linked one if it has a feeAmount, else a same-day one that has
ResolvedFrom(ap, item) ==
    IF item.appointmentId \in DOMAIN ap /\ ap[item.appointmentId].feeAmount # None
    THEN {item.appointmentId}
    ELSE {a \in ApptIdSet : /\ ap[a].patientId = item.patientId
                            /\ SameDayLocal(ap[a])
                            /\ ap[a].feeAmount # None}

\* what the claim says a load leaves of a pending item
Corrected(ap, item) ==
    IF ResolvedFrom(ap, item) = {} THEN item
    ELSE LET apt == ap[CHOOSE a \in ResolvedFrom(ap, item) : TRUE]
             feeType == IF apt.feeType # "" THEN apt.feeType ELSE item.feeType
             paymentStatus == IF apt.feeStatus # "" THEN apt.feeStatus
                                                    ELSE item.paymentStatus
         IN IF /\ apt.feeAmount[1] = item.feeAmount
               /\ feeType = item.feeType
               /\ paymentStatus = item.paymentStatus
            THEN item
            ELSE [item EXCEPT !.feeAmount = apt.feeAmount[1],
                              !.feeType = feeType,
                              !.paymentStatus = paymentStatus,
                              !.netAmount = apt.feeAmount[1] - OrZero(item.discountAmount)]

\* the item as handleSaveFee writes it, before the reload
Saved(item) ==
    [item EXCEPT !.feeAmount = editingFee.feeAmount,
                 !.discountPercent = Some(editingFee.discountPercent),
                 !.discountAmount = Some(editingFee.discountAmount),
                 !.netAmount = editingFee.netAmount,
                 !.paymentMethod = editingFee.paymentMethod,
                 !.notes = editingFee.notes]

\* C17: a load corrects a pending item whose resolved fee, fee type or
\* payment status differs to the resolved values with netAmount = resolved
\* fee - stored discountAmount, and leaves its discount fields and every
\* other field alone; this holds for the Refresh button, the sweep and the
\* reload that ends a fee save.
C17_ResyncKeepsDiscount ==
    [][/\ (BillLoadQueue \/ CheckPharmacyQueue)
             => \A i \in 1..Len(billingQueue) :
                   billingQueue[i].status = "pending"
                      => billingQueue'[i] = Corrected(appointments', billingQueue[i])
       /\ (HandleSaveFee /\ billSelectedItem # None)
             => LET i == BillingIndex(billingQueue, billSelectedItem[1].id) IN
                billingQueue[i].status = "pending"
                   => billingQueue'[i] = Corrected(appointments', Saved(billingQueue[i]))]_vars

\* a pending item the reload corrected to the appointment's fee and status
\* while it carried a discount: 400 - 100, not 400 - 20%
C17_Witness ==
    \E i \in 1..Len(billingQueue) :
        /\ billingQueue[i].status = "pending"
        /\ billingQueue[i].feeAmount = 400
        /\ billingQueue[i].discountPercent = Some(20)
        /\ billingQueue[i].discountAmount = Some(100)
        /\ billingQueue[i].netAmount = 300
        /\ billingQueue[i].paymentStatus = "paid"


\* ---------------------------------------------------------------------
\* The pharmacy listings: three visits were sent to the pharmacy, with or
\* without priority, at different or equal times; the third may have been
\* stopped.  The list rows carry every button but Stop, so the detail
\* panel stays closed here.
\* ---------------------------------------------------------------------
\* an appointment of another day that carries no fee
NoFeeAppointment ==
    [id |-> "a1", patientId |-> "p1", day |-> "other", status |-> "scheduled",
     feeAmount |-> None, feeType |-> "", feeStatus |-> ""]

InitSort ==
    /\ \E p1 \in BOOLEAN, p2 \in BOOLEAN, p3 \in BOOLEAN, t3 \in {1, 2},
          st3 \in {"pending", "stopped"} :
          pharmacyQueue = ("q1" :> PharmItem("q1", "v1", "", p1, 2, "pending"))
                       @@ ("q2" :> PharmItem("q2", "v2", "", p2, 1, "pending"))
                       @@ ("q3" :> PharmItem("q3", "v3", "", p3, t3, st3))
    /\ InitRest({NoFeeAppointment})

NextSort ==
    \/ PharmLoadQueue
    \/ \E q \in PharmIdSet : HandleStartPreparing(q)
    \/ \E q \in PharmIdSet : HandleMarkPrepared(q)
    \/ \E q \in PharmIdSet : HandlePharmReopen(q)

SpecSort == InitSort /\ [][NextSort]_vars

\* the rows are in order: a priority row is never behind a row without
\* priority, and of two rows of equal priority the one created earlier is
\* never behind the other
RowsInOrder(rows) ==
    \A i \in 1..Len(rows), j \in 1..Len(rows) :
        /\ (rows[i].priority /\ ~rows[j].priority) => i < j
        /\ (rows[i].priority = rows[j].priority /\ rows[i].createdAt < rows[j].createdAt)
              => i < j

\* the rows are the stored items in the given statuses, each once
RowsAreItemsIn(rows, statuses) ==
    /\ \A q \in DOMAIN pharmacyQueue :
          Cardinality({i \in 1..Len(rows) : rows[i].id = q})
              = IF pharmacyQueue[q].status \in statuses THEN 1 ELSE 0
    /\ \A i \in 1..Len(rows) :
          /\ rows[i].id \in DOMAIN pharmacyQueue
          /\ rows[i].status = pharmacyQueue[rows[i].id].status
          /\ rows[i].priority = pharmacyQueue[rows[i].id].priority
          /\ rows[i].createdAt = pharmacyQueue[rows[i].id].createdAt

\* C18: the active listing holds exactly the pending and preparing items
\* and the prepared listing exactly the prepared items, so an item in any
\* other status is in neither; in both listings a priority item comes
\* before every item without priority whatever their creation times, and
\* of two items of equal priority the one created earlier comes first.
C18_ListingsFilteredAndOrdered ==
    /\ RowsAreItemsIn(pharmQueueRows, {"pending", "preparing"})
    /\ RowsAreItemsIn(pharmPreparedRows, {"prepared"})
    /\ RowsInOrder(pharmQueueRows)
    /\ RowsInOrder(pharmPreparedRows)

\* a priority item sent last, now being prepared, is listed before an item
\* without priority sent first, while the third item, stopped, is in
\* neither listing
C18_Witness ==
    /\ Len(pharmQueueRows) = 2
    /\ pharmQueueRows[1].status = "preparing"
    /\ pharmQueueRows[1].priority /\ ~pharmQueueRows[2].priority
    /\ pharmQueueRows[1].createdAt > pharmQueueRows[2].createdAt
    /\ pharmPreparedRows = << >>
    /\ \E q \in DOMAIN pharmacyQueue : pharmacyQueue[q].status = "stopped"



\* ---------------------------------------------------------------------
\* The pharmacy page while the doctor keeps working: the doctor adds a
\* prescription to a visit or removes it again, and sends a visit that has
\* no live pharmacy queue item to the pharmacy
\* ---------------------------------------------------------------------
\* the doctor panel edits the prescriptions of a visit
DoctorEditsPrescriptions(v) ==
    /\ doctorPrescriptions' =
          [doctorPrescriptions EXCEPT ![v] =
              IF Len(@) = 1 THEN @ \o <<"rx2-" \o v>> ELSE <<@[1]>>]
    /\ UNCHANGED <<storeVars, medicineBillVars, pharmPageVars, billPageVars,
                   markPreparedSeen, flightVars>>

\* the stored items of the visit that are not stopped
LiveItemsOfVisit(pq, v) ==
    {q \in DOMAIN pq : pq[q].visitId = v /\ pq[q].status # "stopped"}

\* the doctor panel routes the prescriptions of a visit to the pharmacy:
\* a new pending item, unless the visit has an item that is not stopped
DoctorSendsToPharmacy(v) ==
    /\ "q2" \notin DOMAIN pharmacyQueue
    /\ LiveItemsOfVisit(pharmacyQueue, v) = {}
    /\ pharmacyQueue' = pharmacyQueue @@ ("q2" :> PharmItem("q2", v, "", FALSE, 2, "pending"))
    /\ UNCHANGED <<billingQueue, appointments, billingReceipts, feeHistory, fees,
                   receiptCounter, doctorVars, medicineBillVars, pharmPageVars, billPageVars,
                   markPreparedSeen, flightVars>>

\* the first visit waits at the pharmacy; the patient's appointment of
\* another day plays no part
InitPharm ==
    /\ pharmacyQueue = ("q1" :> PharmItem("q1", "v1", "", FALSE, 1, "pending"))
    /\ InitRest({NoFeeAppointment})

NextPharm ==
    \/ PharmLoadQueue
    \/ \E q \in PharmIdSet : PharmSelectItem(q)
    \/ \E q \in PharmIdSet : HandleStartPreparing(q)
    \/ \E q \in PharmIdSet : HandleMarkPrepared(q)
    \/ \E q \in PharmIdSet : HandlePharmReopen(q)
    \/ \E q \in PharmIdSet : HandleStop(q)
    \/ CheckPharmacyQueue
    \/ \E v \in VisitIds : DoctorEditsPrescriptions(v)
    \/ \E v \in VisitIds : DoctorSendsToPharmacy(v)

SpecPharm == InitPharm /\ [][NextPharm]_vars

\* a step of the pharmacy page that runs loadQueue
PharmRefresh ==
    \/ PharmLoadQueue
    \/ \E q \in PharmIdSet : \/ HandleStartPreparing(q)
                              \/ HandleMarkPrepared(q)
                              \/ HandlePharmReopen(q)
                              \/ HandleStop(q)

\* C19: on every refresh of the pharmacy page, a listed item is flagged
\* hasUpdates exactly when a watermark for its id existed before the
\* refresh and differs from the current concatenation of the ids of its
\* visit's prescriptions, so an item seen for the first time is not
\* flagged; and after the refresh its watermark is that concatenation.
C19_FlaggedIffWatermarkDiffers ==
    [][PharmRefresh =>
        LET listed == pharmQueueRows' \o pharmPreparedRows' IN
        \A i \in 1..Len(listed) :
            LET id == listed[i].id
                current == JoinIds(doctorPrescriptions[pharmacyQueue'[id].visitId])
            IN /\ listed[i].hasUpdates
                      = (/\ previousPrescriptionIds[id] # None
                         /\ previousPrescriptionIds[id] # Some(current))
               /\ previousPrescriptionIds'[id] = Some(current)]_vars

\* a refresh has flagged the first item after the doctor's edit, and has
\* listed the item sent later without a flag although its visit's
\* prescriptions were edited too
C19_Witness ==
    /\ \E i \in 1..Len(pharmQueueRows) :
          pharmQueueRows[i].id = "q1" /\ pharmQueueRows[i].hasUpdates
    /\ \E i \in 1..Len(pharmQueueRows) :
          /\ pharmQueueRows[i].id = "q2" /\ ~pharmQueueRows[i].hasUpdates
          /\ previousPrescriptionIds["q2"] = Some("rx-v2,rx2-v2")

\* C20: no visit has two pharmacy queue items that are not stopped, and
\* startPreparing, markPrepared, reopen, stop and the billing sweep never
\* add an item to the pharmacy queue.
C20_OneLiveItemPerVisit ==
    /\ [](\A v \in AllVisitIds : Cardinality(LiveItemsOfVisit(pharmacyQueue, v)) <= 1)
    /\ [][(PharmRefresh \/ CheckPharmacyQueue)
            => DOMAIN pharmacyQueue' = DOMAIN pharmacyQueue]_vars

\* the visit's first item was prepared, reopened and stopped, and the item
\* sent in its place has been prepared in turn
C20_Witness ==
    /\ DOMAIN pharmacyQueue = {"q1", "q2"}
    /\ pharmacyQueue["q1"].visitId = pharmacyQueue["q2"].visitId
    /\ pharmacyQueue["q1"].status = "stopped"
    /\ pharmacyQueue["q1"].preparedBy = "pharmacy"
    /\ pharmacyQueue["q2"].status = "prepared"


\* ---------------------------------------------------------------------
\* Medicine bills: two prepared visits reach the billing page, the first
\* with two prescriptions, and their bills are written and rewritten
\* ---------------------------------------------------------------------
AmountInputs == {Money(120), Money(80)}

BillDiscountInputs == {10}

BillTaxInputs == {5}

InitBill ==
    /\ pharmacyQueue = ("q1" :> PharmItem("q1", "v1", "", FALSE, 1, "prepared"))
                     @@ ("q2" :> PharmItem("q2", "v2", "", FALSE, 2, "prepared"))
    /\ InitRestWith({NoFeeAppointment},
                    [v \in AllVisitIds |-> IF v = "v1" THEN <<"rx-v1", "rx2-v1">>
                                                      ELSE <<"rx-" \o v>>])

NextBill ==
    \/ CheckPharmacyQueue
    \/ \E item \in BillItems : HandleViewPrescription(item)
    \/ HandleCreateBill
    \/ BackToPrescription
    \/ ClosePrescriptionPopup
    \/ \E index \in 1..2, amount \in AmountInputs : HandleBillItemAmountChange(index, amount)
    \/ \E percent \in BillDiscountInputs : SetBillDiscount(percent)
    \/ \E percent \in BillTaxInputs : SetBillTax(percent)
    \/ HandleSaveBill
    \/ \E item \in BillItems : HandleViewSavedBill(item)
    \/ CloseViewBillPopup
    \/ EditSavedBill

SpecBill == InitBill /\ [][NextBill]_vars

RECURSIVE SumOfAmounts(_)
SumOfAmounts(items) ==
    IF items = << >> THEN 0 ELSE items[1].amount + SumOfAmounts(Tail(items))

\* C21: every saved bill has subtotal = the sum of its line amounts,
\* discountAmount = subtotal * discountPercent / 100, taxAmount =
\* (subtotal - discountAmount) * taxPercent / 100, the tax being taken on
\* the discounted amount, and grandTotal = subtotal - discountAmount +
\* taxAmount; amounts 120 and 80 with 10 percent discount and 5 percent tax
\* give 200, 20, 9 and 189.
C21_BillTotals ==
    \A k \in 1..Len(medicineBills) :
        LET bill == medicineBills[k] IN
        /\ bill.subtotal = SumOfAmounts(bill.items)
        /\ bill.discountAmount * 100 = bill.subtotal * bill.discountPercent
        /\ bill.taxAmount * 100 = (bill.subtotal - bill.discountAmount) * bill.taxPercent
        /\ bill.grandTotal = bill.subtotal - bill.discountAmount + bill.taxAmount
        /\ (/\ Len(bill.items) = 2
            /\ bill.items[1].amount = Money(120) /\ bill.items[2].amount = Money(80)
            /\ bill.discountPercent = 10 /\ bill.taxPercent = 5)
           => /\ bill.subtotal = Money(200)
              /\ bill.discountAmount = Money(20)
              /\ bill.taxAmount = Money(9)
              /\ bill.grandTotal = Money(189)

\* the bill of amounts 120 and 80 with 10 percent discount and 5 percent
\* tax has been saved
C21_Witness ==
    \E k \in 1..Len(medicineBills) :
        /\ Len(medicineBills[k].items) = 2
        /\ medicineBills[k].items[1].amount = Money(120)
        /\ medicineBills[k].items[2].amount = Money(80)
        /\ medicineBills[k].discountPercent = 10
        /\ medicineBills[k].taxPercent = 5
        /\ medicineBills[k].grandTotal = Money(189)

\* C22: no two medicine bills have the same billingQueueId; a save for a
\* billing item that has a bill adds none and leaves that bill, in its
\* place, with the items and totals of the editor.
C22_OneBillPerBillingItem ==
    /\ [](\A i, j \in 1..Len(medicineBills) :
            medicineBills[i].billingQueueId = medicineBills[j].billingQueueId => i = j)
    /\ [][(HandleSaveBill /\ MedicineBillIndex(medicineBills, viewingBillingItem[1].id) # 0)
            => LET k == MedicineBillIndex(medicineBills, viewingBillingItem[1].id) IN
               /\ Len(medicineBills') = Len(medicineBills)
               /\ medicineBills'[k].id = medicineBills[k].id
               /\ medicineBills'[k].billingQueueId = viewingBillingItem[1].id
               /\ medicineBills'[k].items = billItems
               /\ medicineBills'[k].grandTotal
                     = getBillTotal(billItems, billDiscount, billTax)]_vars

\* both billing items have a bill; the first bill was opened again after
\* the second was created, and holds what the editor shows
C22_Witness ==
    /\ Len(medicineBills) = 2
    /\ medicineBills[1].billingQueueId # medicineBills[2].billingQueueId
    /\ showPrescriptionPopup /\ isBillMode
    /\ savedMedicineBill = Some(medicineBills[1].id)
    /\ medicineBills[1].items = billItems
    /\ medicineBills[1].discountPercent = 10
    /\ medicineBills[1].grandTotal = getBillTotal(billItems, billDiscount, billTax)



\* ---------------------------------------------------------------------
\* Stale ids: a pharmacy queue item is taken out of the store while the
\* pharmacy page still shows it
\* ---------------------------------------------------------------------
\* the item is deleted from the store by another part of the system
PharmacyItemDeleted(q) ==
    /\ q \in DOMAIN pharmacyQueue
    /\ pharmacyQueue' = [x \in DOMAIN pharmacyQueue \ {q} |-> pharmacyQueue[x]]
    /\ UNCHANGED <<billingQueue, appointments, billingReceipts, feeHistory, fees,
                   receiptCounter, doctorVars, medicineBillVars, pharmPageVars,
                   billPageVars, markPreparedSeen, flightVars>>

\* the patient's appointment of today, after the doctor's visit
CompletedAppointment ==
    [id |-> "a1", patientId |-> "p1", day |-> "today", status |-> "completed",
     feeAmount |-> Some(400), feeType |-> "New Patient", feeStatus |-> ""]

InitGone ==
    /\ \E st \in {"pending", "preparing", "prepared"} :
          pharmacyQueue = ("q1" :> PharmItem("q1", "v1", "a1", FALSE, 1, st))
                       @@ ("q2" :> PharmItem("q2", "v3", "", FALSE, 2, "pending"))
    /\ InitRest({CompletedAppointment})

NextGone ==
    \/ PharmLoadQueue
    \/ \E q \in AllPharmIds : PharmSelectItem(q)
    \/ \E q \in AllPharmIds : HandleStartPreparing(q)
    \/ \E q \in AllPharmIds : HandleMarkPrepared(q)
    \/ \E q \in AllPharmIds : HandlePharmReopen(q)
    \/ \E q \in AllPharmIds : HandleStop(q)
    \/ \E q \in AllPharmIds : PharmacyItemDeleted(q)

SpecGone == InitGone /\ [][NextGone]_vars

\* a pharmacy page handler runs for the id
PharmHandlerOn(q) ==
    \/ HandleStartPreparing(q)
    \/ HandleMarkPrepared(q)
    \/ HandlePharmReopen(q)
    \/ HandleStop(q)

\* C23: startPreparing, markPrepared, reopen and stop for an id that is
\* not in the pharmacy queue create no billing queue item, change no
\* appointment and leave every pharmacy queue item as it is.
C23_MissingIdIsNoOp ==
    [][\A q \in AllPharmIds :
          (q \notin DOMAIN pharmacyQueue /\ PharmHandlerOn(q))
              => /\ pharmacyQueue' = pharmacyQueue
                 /\ billingQueue' = billingQueue
                 /\ appointments' = appointments]_vars

\* markPrepared ran for the first item after it was deleted: nothing was
\* billed, and the appointment is still completed
C23_Witness ==
    /\ "q1" \notin DOMAIN pharmacyQueue
    /\ markPreparedSeen["q1"] = "once"
    /\ billingQueue = << >>
    /\ appointments["a1"].status = "completed"


\* ---------------------------------------------------------------------
\* The two lists of the billing page
\* ---------------------------------------------------------------------
\* C24: no visit is in both the pending list and the completed list of the
\* billing page, and a visit whose billing item is completed is in the
\* completed list only, whatever loads, sweeps and pharmacy actions follow
\* the Complete click.
C24_PendingAndCompletedDisjoint ==
    /\ \A a \in billQueueItems, b \in billCompletedItems : a.visitId # b.visitId
    /\ \A a \in billQueueItems : a.status \in {"pending", "paid"}
    /\ \A b \in billCompletedItems : b.status = "completed"
    /\ \A i \in 1..Len(billingQueue) :
          billingQueue[i].status = "completed"
              => /\ \E b \in billCompletedItems : b.id = billingQueue[i].id
                 /\ \A a \in billQueueItems : a.visitId # billingQueue[i].visitId

\* the visit was completed, and the pharmacy then reopened its item and
\* marked it prepared again: it is still in the completed list only
C24_Witness ==
    /\ billQueueItems = {}
    /\ \E b \in billCompletedItems : b.visitId = pharmacyQueue["q1"].visitId
    /\ pharmacyQueue["q1"].status = "prepared"
    /\ markPreparedSeen["q1"] = "again"


\* ---------------------------------------------------------------------
\* What a sweep leaves behind
\* ---------------------------------------------------------------------
\* C25: after a sweep, every pharmacy queue item that was prepared when
\* the sweep started and whose visit has a billing queue item, created by
\* this sweep or earlier by markPrepared, has status billed.
C25_SweepMarksBilled ==
    [][CheckPharmacyQueue =>
          \A q \in DOMAIN pharmacyQueue :
              (/\ pharmacyQueue[q].status = "prepared"
               /\ ExistingBilling(billingQueue', pharmacyQueue[q].visitId))
                  => pharmacyQueue'[q].status = "billed"]_vars


\* ---------------------------------------------------------------------
\* The notification of updated prescriptions
\* ---------------------------------------------------------------------
\* C26: a refresh of the pharmacy page that flags an active item with
\* hasUpdates raises the notification in that same refresh.
C26_FlagRaisesNotification ==
    [][(PharmRefresh /\ ItemsWithUpdates(pharmQueueRows') > 0)
          => notification' # None]_vars


\* ---------------------------------------------------------------------
\* Back-propagation of a saved fee
\* ---------------------------------------------------------------------
\* the legacy fee records of the patient and visit
RelatedFees(fs, item) ==
    {i \in 1..Len(fs) : fs[i].patientId = item.patientId /\ fs[i].visitId = item.visitId}

\* the stored billing item with the id
StoredItem(bq, id) == bq[BillingIndex(bq, id)]

\* after a save on an item with an appointmentId, the linked appointment
\* and the related fee record carry the item's new feeAmount
SaveReachesLinkedRecords ==
    LET item == billSelectedItem[1] IN
    (HandleSaveFee /\ item.appointmentId # "")
        => /\ appointments'[item.appointmentId].feeAmount
                 = Some(StoredItem(billingQueue', item.id).feeAmount)
           /\ \A i \in RelatedFees(fees, item) :
                 fees'[i].amount = StoredItem(billingQueue', item.id).feeAmount

\* after a save on an item with neither, the item has the edited values
\* and no appointment or fee record has changed
SaveWithoutLinkedRecords ==
    LET item == billSelectedItem[1] IN
    (HandleSaveFee /\ item.appointmentId = "" /\ RelatedFees(fees, item) = {})
        => /\ StoredItem(billingQueue', item.id).feeAmount = editingFee.feeAmount
           /\ StoredItem(billingQueue', item.id).discountPercent
                 = Some(editingFee.discountPercent)
           /\ appointments' = appointments
           /\ fees' = fees

\* C27: a saved fee edit on an item with an appointmentId leaves the
\* linked appointment's feeAmount, and the amount of a legacy fee record
\* of the patient and visit, equal to the item's new feeAmount; on an item
\* with no appointmentId and no such fee record it still updates the item
\* with the edited values and changes no other record.
C27_SaveFeeBackPropagation ==
    [][SaveReachesLinkedRecords /\ SaveWithoutLinkedRecords]_vars

\* the first half of C27 alone
C27_LinkedHalf == [][SaveReachesLinkedRecords]_vars


\* ---------------------------------------------------------------------
\* What a load changes in the stored billing queue
\* ---------------------------------------------------------------------
\* the item with the four fields the resync writes taken from another
WithResyncedFields(item, other) ==
    [item EXCEPT !.feeAmount = other.feeAmount,
                 !.feeType = other.feeType,
                 !.paymentStatus = other.paymentStatus,
                 !.netAmount = other.netAmount]

\* the stored item i differs after the step at most as the resync allows
LoadFrame(i) ==
    LET old == billingQueue[i]
        new == billingQueue'[i]
    IN /\ old.status # "pending" => new = old
       /\ new = WithResyncedFields(old, new)
       /\ new.status = old.status
       /\ new.discountPercent = old.discountPercent
       /\ new.discountAmount = old.discountAmount
       /\ new.paymentMethod = old.paymentMethod
       /\ new.receiptNumber = old.receiptNumber

\* C28: a load of the billing queue (the Refresh button or the periodic
\* sweep and reload) changes only stored items in status pending, and of
\* those only feeAmount, feeType, paymentStatus and netAmount: paid and
\* completed items, and every item's status, discountPercent,
\* discountAmount, paymentMethod and receiptNumber, are as before.
C28_ResyncFrame ==
    [][(BillLoadQueue \/ CheckPharmacyQueue)
          => /\ Len(billingQueue') >= Len(billingQueue)
             /\ \A i \in 1..Len(billingQueue) : LoadFrame(i)]_vars

\* a load has corrected the fee of the pending item that markPrepared
\* created with the first-visit fee: the item, never edited, carries the
\* fee of its linked appointment of another day
C28_Witness ==
    /\ Len(billingQueue) = 1
    /\ billingQueue[1].status = "pending"
    /\ billingQueue[1].discountPercent = None
    /\ billingQueue[1].appointmentId \in DOMAIN appointments
    /\ appointments[billingQueue[1].appointmentId].day = "other"
    /\ appointments[billingQueue[1].appointmentId].feeAmount = Some(billingQueue[1].feeAmount)
    /\ billingQueue[1].feeAmount = 400
    /\ pharmacyQueue["q1"].visitId = billingQueue[1].visitId
    /\ pharmacyQueue["q1"].status = "prepared"
    /\ pharmacyQueue["q1"].preparedBy = "pharmacy"


\* ---------------------------------------------------------------------
\* The record an admission creates
\* ---------------------------------------------------------------------
\* the billing item b is as an admission creates it from pharmacy item q
CreatedAsAdmitted(b, q) ==
    /\ b.status = "pending"
    /\ b.paymentStatus = "pending"
    /\ b.netAmount = b.feeAmount
    /\ b.visitId = q.visitId
    /\ b.patientId = q.patientId
    /\ b.appointmentId = q.appointmentId
    /\ b.prescriptionIds = q.prescriptionIds

\* the item markPrepared adds to the store is built from the item prepared
MarkPreparedCreates ==
    \A q \in AllPharmIds :
        (HandleMarkPrepared(q) /\ Len(billingQueue') > Len(billingQueue))
            => /\ q \in DOMAIN pharmacyQueue
               /\ Len(billingQueue') = Len(billingQueue) + 1
               /\ CreatedAsAdmitted(billingQueue'[Len(billingQueue')], pharmacyQueue[q])

\* the items the sweep adds to the store, as billingQueueDb.create stores
\* them, are built from prepared pharmacy items, and the reload that
\* follows keeps the copied fields
SweepCreates ==
    LET created == SweepResult(billingQueue, pharmacyQueue, appointments).bq IN
    CheckPharmacyQueue
        => \A i \in (Len(billingQueue) + 1)..Len(created) :
              \E q \in PharmIdSet :
                 /\ pharmacyQueue[q].status = "prepared"
                 /\ CreatedAsAdmitted(created[i], pharmacyQueue[q])
                 /\ billingQueue'[i].status = "pending"
                 /\ billingQueue'[i].visitId = pharmacyQueue[q].visitId
                 /\ billingQueue'[i].patientId = pharmacyQueue[q].patientId
                 /\ billingQueue'[i].appointmentId = pharmacyQueue[q].appointmentId
                 /\ billingQueue'[i].prescriptionIds = pharmacyQueue[q].prescriptionIds

PharmStatusStep(q) ==
    LET old == pharmacyQueue[q].status
        new == pharmacyQueue'[q].status
    IN \/ new = old
       \/ old = "pending" /\ new = "preparing" /\ HandleStartPreparing(q)
       \/ old = "preparing" /\ new = "prepared" /\ HandleMarkPrepared(q)
       \/ old = "prepared" /\ new = "pending" /\ HandlePharmReopen(q)
       \/ old \in {"pending", "preparing"} /\ new = "stopped" /\ HandleStop(q)
       \/ old = "prepared" /\ new = "billed" /\ CheckPharmacyQueue

\* C30: through the pharmacy page's actions and the sweep, the stored
\* status of a pharmacy queue item changes only pending -> preparing
\* (startPreparing), preparing -> prepared (markPrepared), prepared ->
\* pending (reopen), pending/preparing -> stopped (stop) and prepared ->
\* billed (sweep); no item goes from pending directly to prepared.
C30_PharmacyStatusTransitions ==
    [][\A q \in AllPharmIds :
          (q \in DOMAIN pharmacyQueue /\ q \in DOMAIN pharmacyQueue')
              => PharmStatusStep(q)]_vars

\* no step takes an item from pending to prepared
C30_NoPendingToPrepared ==
    [][\A q \in AllPharmIds :
          (q \in DOMAIN pharmacyQueue /\ q \in DOMAIN pharmacyQueue')
              => ~(pharmacyQueue[q].status = "pending"
                   /\ pharmacyQueue'[q].status = "prepared")]_vars


\* ---------------------------------------------------------------------
\* Pharmacy reopen
\* ---------------------------------------------------------------------
\* the patient's same-day appointments in status medicines-prepared
PreparedAppointmentsOf(ap, pid) ==
    {a \in DOMAIN ap : /\ ap[a].patientId = pid
                        /\ SameDayISO(ap[a])
                        /\ ap[a].status = "medicines-prepared"}

\* a reopen of the stored prepared item q leaves it pending, sets the
\* patient's same-day medicines-prepared appointment to completed, and
\* changes nothing else in the three stores
ReopenReverses(q) ==
    (HandlePharmReopen(q) /\ q \in DOMAIN pharmacyQueue
                          /\ pharmacyQueue[q].status = "prepared")
        => /\ pharmacyQueue' = [pharmacyQueue EXCEPT ![q].status = "pending"]
           /\ billingQueue' = billingQueue
           /\ DOMAIN appointments' = DOMAIN appointments
           /\ \A a \in DOMAIN appointments :
                 appointments'[a] =
                    IF a \in PreparedAppointmentsOf(appointments, pharmacyQueue[q].patientId)
                    THEN [appointments[a] EXCEPT !.status = "completed"]
                    ELSE appointments[a]

\* C31: the pharmacy page's reopen of a prepared item sets it to pending
\* and sets a same-day appointment of the patient in status
\* 'medicines-prepared' to 'completed'; appointments in any other status,
\* all billing queue items and all other pharmacy items are unchanged.
C31_ReopenReversesMarkPrepared ==
    [][\A q \in AllPharmIds : ReopenReverses(q)]_vars

\* q1 was marked prepared on the page, which admitted its visit and set
\* the day's appointment to medicines-prepared, and has been reopened: it
\* is pending again, the appointment completed again, the billing item kept
C31_Witness ==
    /\ pharmacyQueue["q1"].status = "pending"
    /\ pharmacyQueue["q1"].preparedBy = "pharmacy"
    /\ markPreparedSeen["q1"] = "once"
    /\ SameDayISO(appointments["a1"])
    /\ appointments["a1"].status = "completed"
    /\ Len(billingQueue) = 1
    /\ billingQueue[1].status = "pending"


\* ---------------------------------------------------------------------
\* Terminal pharmacy statuses
\* ---------------------------------------------------------------------
\* no step changes the stored status of an item that has one of the statuses
StatusesAreTerminal(statuses) ==
    \A q \in AllPharmIds :
        (q \in DOMAIN pharmacyQueue /\ pharmacyQueue[q].status \in statuses)
            => /\ q \in DOMAIN pharmacyQueue'
               /\ pharmacyQueue'[q].status = pharmacyQueue[q].status

\* C32: a pharmacy queue item in status stopped or billed keeps that
\* status under every later operation of the pharmacy page and every
\* sweep, also when the operation is issued from a list or a selected
\* item loaded before the item reached the status.
C32_StoppedAndBilledTerminal == [][StatusesAreTerminal({"stopped", "billed"})]_vars

\* the half of C32 about stopped items
C32_StoppedTerminal == [][StatusesAreTerminal({"stopped"})]_vars


\* ---------------------------------------------------------------------
\* Amounts stored on a billing queue item
\* ---------------------------------------------------------------------
\* C33: every stored billing queue item has netAmount = feeAmount -
\* discountAmount, an absent discountAmount counting as 0.
C33_NetIsFeeMinusDiscount ==
    \A i \in 1..Len(billingQueue) :
        billingQueue[i].netAmount
            = billingQueue[i].feeAmount - OrZero(billingQueue[i].discountAmount)

\* a fee of 500 with a discount of 20 percent was saved on the pending
\* item and the reload has resynced the fee to the appointment's 400: the
\* net amount is the new fee less the discount amount that was saved
C33_Witness ==
    /\ Len(billingQueue) = 1
    /\ billingQueue[1].status = "pending"
    /\ billingQueue[1].discountPercent = Some(20)
    /\ billingQueue[1].discountAmount = Some(100)
    /\ billingQueue[1].feeAmount = 400
    /\ billingQueue[1].netAmount = 300

\* C34: every stored billing queue item has discountAmount = feeAmount *
\* discountPercent / 100 (absent values counting as 0), also after the
\* fee resync has replaced the feeAmount of a pending item that carries a
\* discountPercent.
C34_DiscountIsPercentOfFee ==
    \A i \in 1..Len(billingQueue) :
        OrZero(billingQueue[i].discountAmount)
            = (billingQueue[i].feeAmount * OrZero(billingQueue[i].discountPercent)) \div 100


\* ---------------------------------------------------------------------
\* Receipts of a billing queue item
\* ---------------------------------------------------------------------
\* the stored receipts of the billing item with the id
ReceiptsOf(receipts, id) ==
    {r \in 1..Len(receipts) : receipts[r].billingQueueId = id}

\* C35: every billing queue item has at most one BillingReceipt, and has
\* one exactly when its status is paid or completed; a reopen followed by
\* a second complete creates no second receipt.
C35_OneReceiptIffPaid ==
    \A i \in 1..Len(billingQueue) :
        Cardinality(ReceiptsOf(billingReceipts, billingQueue[i].id))
            = IF billingQueue[i].status \in {"paid", "completed"} THEN 1 ELSE 0

\* the item was completed, reopened and completed again, and has the one
\* receipt generated when it was paid
C35_Witness ==
    /\ Len(billingQueue) = 1
    /\ billingQueue[1].status = "completed"
    /\ Len(feeHistory) = 2
    /\ Cardinality(ReceiptsOf(billingReceipts, billingQueue[1].id)) = 1


\* ---------------------------------------------------------------------
\* Fee history and Complete
\* ---------------------------------------------------------------------
\* fee-history records of a visit
FeeHistoryOfVisit(fh, v) == {i \in 1..Len(fh) : fh[i].visitId = v}

\* the step completes the listed item: its stored status goes from paid
\* to completed
CompleteTransition(item) ==
    /\ HandleComplete(item)
    /\ StoredItem(billingQueue, item.id).status = "paid"
    /\ StoredItem(billingQueue', item.id).status = "completed"

\* every Complete appends one record of the item's visit, and nothing
\* else changes the fee history
OneRecordPerComplete ==
    /\ \A item \in BillItems :
          HandleComplete(item)
              => /\ CompleteTransition(item)
                 /\ Len(feeHistory') = Len(feeHistory) + 1
                 /\ SubSeq(feeHistory', 1, Len(feeHistory)) = feeHistory
                 /\ feeHistory'[Len(feeHistory')].visitId = item.visitId
    /\ (\A item \in BillItems : ~HandleComplete(item)) => feeHistory' = feeHistory

\* C36: the fee-history records of a visit are as many as the Complete
\* transitions of its billing item: each Complete appends one record of
\* the visit and no other operation adds or removes one, so an item
\* completed, reopened and completed again has two records.
C36_FeeHistoryCountsCompletes == [][OneRecordPerComplete]_vars

\* the item is in status paid after a reopen that followed its second
\* completion: its visit has two fee-history records
C36_Witness ==
    /\ Len(billingQueue) = 1
    /\ billingQueue[1].status = "paid"
    /\ Cardinality(FeeHistoryOfVisit(feeHistory, billingQueue[1].visitId)) = 2


\* ---------------------------------------------------------------------
\* Persistence of a saved fee
\* ---------------------------------------------------------------------
\* the save of a fee on a stored pending item leaves the edited feeAmount
\* in the store
SavedFeeStays ==
    (HandleSaveFee /\ StoredItem(billingQueue, billSelectedItem[1].id).status = "pending")
        => StoredItem(billingQueue', billSelectedItem[1].id).feeAmount
              = editingFee.feeAmount

\* C37: a fee saved on a pending billing item persists: after
\* handleSaveFee with its reload, and after any later reload, the stored
\* feeAmount is the edited value, for an item with an appointmentId and
\* for an item without one whose patient has a same-day appointment with
\* another feeAmount.
C37_SavedFeePersists == [][SavedFeeStays]_vars

\* the save on an item whose appointmentId names a stored appointment
C37_LinkedSavePersists ==
    [][billSelectedItem # None /\ billSelectedItem[1].appointmentId \in DOMAIN appointments
          => SavedFeeStays]_vars


\* ---------------------------------------------------------------------
\* The appointment after billing Complete
\* ---------------------------------------------------------------------
\* appointments that a Complete of a visit's billing item has set: the
\* item names the appointment and its visit has a fee-history record
CompletedByBilling ==
    {a \in DOMAIN appointments :
        \E i \in 1..Len(billingQueue) :
            /\ billingQueue[i].appointmentId = a
            /\ FeeHistoryOfVisit(feeHistory, billingQueue[i].visitId) # {}}

\* C38: an appointment that billing Complete has set to 'completed' stays
\* 'completed' under every later operation on the visit; a pharmacy
\* reopen followed by markPrepared of the visit's pharmacy item does not
\* move it back to 'medicines-prepared'.
C38_AppointmentStaysCompleted ==
    [][\A a \in CompletedByBilling :
          appointments[a].status = "completed"
              => appointments'[a].status = "completed"]_vars


SeenSequence(q) == JoinIds(doctorPrescriptions[pharmacyQueue'[q].visitId])

\* between refreshes the watermarks stay as the last refresh left them; a
\* refresh leaves each listed item's watermark at the sequence it read,
\* flags the items whose earlier watermark differs from it, and flags no
\* item whose earlier watermark is the same sequence
FlagFollowsSequence ==
    /\ ~PharmRefresh => previousPrescriptionIds' = previousPrescriptionIds
    /\ PharmRefresh =>
          LET listed == pharmQueueRows' \o pharmPreparedRows' IN
          \A i \in 1..Len(listed) :
              LET q == listed[i].id IN
              /\ previousPrescriptionIds'[q] = Some(SeenSequence(q))
              /\ previousPrescriptionIds[q] = Some(SeenSequence(q))
                    => ~listed[i].hasUpdates
              /\ (/\ previousPrescriptionIds[q] # None
                  /\ previousPrescriptionIds[q] # Some(SeenSequence(q)))
                    => listed[i].hasUpdates

====
